---------------------------- MODULE Spec2Model ----------------------------
(***************************************************************************)
(* Audit service: the pull consumer (RabbitMQConsumer), the push handlers  *)
(* (handleEvent) and the application's consumer state, as a state machine. *)
(*                                                                         *)
(* One step of the model is one run-to-completion piece of the Node.js     *)
(* event loop.  Every await that waits for the broker is a separate step.  *)
(* A consume callback suspended at `await handler(event)` resumes from the *)
(* microtask queue: a timer, a signal, an HTTP request or a new socket     *)
(* cannot run before it, frames already read from the broker can.          *)
(***************************************************************************)
EXTENDS Integers, Sequences, FiniteSets, TLC

(***************************************************************************)
(* Bounds of the model.                                                    *)
(***************************************************************************)
MaxConns == 2        \* broker connections opened in one run
MaxRaceConns == 3    \* the same, in the runs of two concurrent attempts (SpecRace)
MaxMsgs == 2         \* messages published to the queue
MaxDeliveries == 3   \* deliveries (pull and push together) in one run
MaxPending == 2      \* reconnect timers and connection attempts alive at once
NMigrations == 2     \* migration files in src/db/migrations
MaxEdits == 1        \* changes made to the migration files in one run
MaxRows == 2         \* rows written to audit_logs by the persistence service
MaxLimit == 2        \* largest page size asked of getAuditLogs
MaxOps == 2          \* pooled operations of one process in progress at once
MaxSignals == 2      \* shutdown triggers one process receives
MaxPools == 2        \* pools one process creates

(***************************************************************************)
(* Program constants.                                                      *)
(***************************************************************************)
maxReconnectAttempts == 10
reconnectDelay == 5000
prefetch == 10

\* The own keys of TOPIC_HANDLERS (one of the forty stands for all of them:
\* every entry has the same shape).
Topics == {"user.created"}

\* Routes of the push adapter; "order.confirmed" has a route but no entry in
\* TOPIC_HANDLERS.
PushRoutes == Topics \cup {"order.confirmed"}

\* Routing keys a delivery can carry.  "__proto__" is a property every
\* object literal inherits from Object.prototype.
RoutingKeys == Topics \cup {"unknown.topic", "__proto__"}

\* Message bodies: an envelope object, the JSON literal null, broken JSON.
Contents == {"{}", "null", "{"}

\* Request bodies as a push handler sees them: an envelope object, or no
\* parsed body at all.
Bodies == {"object", "null"}

Msgs == 1..MaxMsgs
Conns == 1..MaxRaceConns

VARIABLES
    \* RabbitMQConsumer fields
    connection,         \* this.connection: 0 is null, else a connection id
    channel,            \* this.channel: 0 is null, else the id of its connection
    reconnectAttempts,  \* this.reconnectAttempts
    \* event loop
    timers,             \* pending setTimeout callbacks: the sequence of their delays
    tasks,              \* start() and timer callbacks suspended at an await
    stopPc,             \* position of stop()
    pending,            \* consume callbacks suspended at `await handler(event)`
    \* broker and client library
    conns,              \* per connection: state, channel, listeners, consumers
    nConns,             \* connections opened so far
    brokerUp,           \* the broker accepts new connections
    msgs,               \* per message: routing key, body, queue state
    \* application (app.ts)
    appPc,              \* "boot", then the messaging provider chosen at startup
    consumerState,      \* the exported consumerState object
    exited,             \* process.exit has been called
    \* audit trail and observations
    auditLogs,          \* rows of the audit_logs table, per message (0: push deliveries)
    auditRecords,       \* records written to the log, per message (0: push deliveries)
    deliveries,         \* consume callbacks started, per message
    pushes,             \* push requests handled, per kind of request body
    last,               \* the delivery that completed last
    sched,              \* delays scheduled since the last successful reconnect
    exhaustedLogged,    \* 'Max reconnection attempts reached' has been logged
    stopCalled,         \* stop() has been called
    timersAtStop,       \* leading timers that were pending when stop() was called
    stopOps,            \* what stop() has done: close calls and caught errors
    \* database (DatabaseMigrationRunner, initializeDatabase)
    runs,               \* per replica: position and locals of its initializeDatabase()
    disk,               \* src/db/migrations: per migration name, the file's content
    migration_history,  \* committed rows of the migration_history table, in order
    applied,            \* committed applications of each migration's body
    edits,              \* changes made to the migration files so far
    \* configuration (config.validator, process.env)
    env,                \* process.env, the variables the service reads
    configPc,           \* "unchecked", then the outcome of validateConfig()
    daprAvailable,      \* startConsumer: "none", then the outcome of the sidecar probe
    messagingProvider,  \* startConsumer: "", then the resolved provider
    \* audit persistence (AuditLogService)
    audit_logs,         \* rows of the audit_logs table written by the service
    svc,                \* the last AuditLogService call: queries issued, outcome
    \* pooled clients (pg Pool)
    checkedOut,         \* clients of the pool that are checked out
    poolOps,            \* per slot: a migration-runner or connection-test call
    \* DatabaseConnection and gracefulShutdown
    pool,               \* this.pool: 0 is null, else a pool id
    pools,              \* per pool created: "none", "open", "ending", "ended"
    sinceClose,         \* initialize() has been called since a close() last finished
    dbCall,             \* the last DatabaseConnection call and what it returned
    shutdowns           \* per shutdown trigger: its gracefulShutdown invocation

vars == <<connection, channel, reconnectAttempts, timers, tasks, stopPc, pending,
          conns, nConns, brokerUp, msgs, appPc, consumerState, exited,
          auditLogs, auditRecords, deliveries, pushes, last, sched, exhaustedLogged,
          stopCalled, timersAtStop, stopOps,
          runs, disk, migration_history, applied, edits,
          env, configPc, daprAvailable, messagingProvider, audit_logs, svc,
          checkedOut, poolOps, pool, pools, sinceClose, dbCall, shutdowns>>

consumerVars == <<connection, channel, reconnectAttempts, timers, tasks, stopPc>>
brokerVars == <<conns, nConns, brokerUp>>
trailVars == <<auditLogs, auditRecords, deliveries, pushes, last>>
msgVars == <<msgs, pending, trailVars>>
appVars == <<appPc, exited>>
stopVars == <<stopCalled, timersAtStop, stopOps>>
dbVars == <<runs, disk, migration_history, applied, edits>>
envVars == <<env, configPc>>
providerVars == <<daprAvailable, messagingProvider>>
storeVars == <<audit_logs, svc>>
lifeVars == <<pool, pools, sinceClose, dbCall, shutdowns>>
poolVars == <<checkedOut, poolOps, lifeVars>>

RemoveAt(s, i) == SubSeq(s, 1, i - 1) \o SubSeq(s, i + 1, Len(s))

Range(s) == {s[i] : i \in DOMAIN s}

NoConn == [state |-> "none", chOpen |-> FALSE, listeners |-> 0, consumers |-> 0]
NoMsg == [key |-> "", content |-> "", st |-> "none", ch |-> 0, redelivered |-> FALSE]
NoDelivery == [mode |-> "none", msg |-> 0, key |-> "", content |-> "",
               handler |-> "undefined", invoked |-> FALSE, ok |-> FALSE,
               settle |-> <<>>, status |-> 0, responses |-> <<>>]


(***************************************************************************)
(* Message processing: pure parts.                                         *)
(***************************************************************************)

\* JSON.parse(content): a value, or a SyntaxError.
JSONParse(content) ==
    CASE content = "{}" -> [ok |-> TRUE, value |-> "object"]
      [] content = "null" -> [ok |-> TRUE, value |-> "null"]
      [] OTHER -> [ok |-> FALSE, value |-> "SyntaxError"]

\* TOPIC_HANDLERS[routingKey], a property read on an object literal: an own
\* entry, a property inherited from Object.prototype, or undefined.
Lookup(routingKey) ==
    CASE routingKey \in Topics -> "table"
      [] routingKey = "constructor" -> "function"
      [] routingKey = "__proto__" -> "object"
      [] OTHER -> "undefined"

\* The event-processing function of a handler (logFunction): it reads
\* event.eventId while building the record, which throws a TypeError on a
\* null event; else it writes one record through logger.business or
\* logger.security.  It inserts no row: no handler calls the persistence
\* service.
LogFunction(event) ==
    IF event = "null"
    THEN [threw |-> TRUE, records |-> 0, rows |-> 0]
    ELSE [threw |-> FALSE, records |-> 1, rows |-> 0]

\* logger.business and logger.security: n records are written to the log
\* for source i (a message, or 0 for the push adapter).
Emit(trail, i, n) == [trail EXCEPT ![i] = @ + n]

\* A wrapper that answers an error status when processing threw.
RespondError(threw) ==
    IF threw
    THEN <<[status |-> 500, body |-> "ERROR"]>>
    ELSE <<[status |-> 200, body |-> "SUCCESS"]>>

\* The responses handleEvent sends: res.status(200).json({status: 'SUCCESS'})
\* at the end of its try block, or the same in its catch block.
Respond(threw) ==
    IF threw
    THEN <<[status |-> 200, body |-> "SUCCESS"]>>
    ELSE <<[status |-> 200, body |-> "SUCCESS"]>>

\* The wrapper every handler is built from: it counts the message, runs the
\* event-processing function and answers 200 on both paths; it never throws.
HandleEvent(event) ==
    LET r == LogFunction(event)
    IN  [tracked |-> 1, records |-> r.records, rows |-> r.rows, ok |-> ~r.threw,
         status |-> Respond(r.threw)[1].status, responses |-> Respond(r.threw),
         threw |-> FALSE]

\* A callback that requeues every message, whatever its content.
ConsumeSyncRequeueAll(routingKey, content) ==
    [handler |-> Lookup(routingKey), invoked |-> FALSE, tracked |-> 0,
     records |-> 0, rows |-> 0, ok |-> FALSE, next |-> "nack"]

\* The consume callback up to its first suspension.  next is what the
\* callback does to the message now ("ack", "nack") or "await" when it is
\* suspended at `await handler(event)`.
ConsumeSync(routingKey, content) ==
    LET p == JSONParse(content)
        h == Lookup(routingKey)
        none == [handler |-> h, invoked |-> FALSE, tracked |-> 0, records |-> 0,
                 rows |-> 0, ok |-> FALSE, next |-> "nack"]
    IN  IF ~p.ok THEN none
        ELSE IF h = "undefined" THEN [none EXCEPT !.next = "ack"]
        ELSE IF h = "object" THEN none
        ELSE IF h = "function" THEN [none EXCEPT !.next = "await"]
        ELSE LET e == HandleEvent(p.value)
             IN  [handler |-> h, invoked |-> TRUE, tracked |-> e.tracked,
                  records |-> e.records, rows |-> e.rows, ok |-> e.ok,
                  next |-> IF e.threw THEN "nack" ELSE "await"]

(***************************************************************************)
(* Reconnection: pure parts.                                               *)
(***************************************************************************)

\* A delay that grows by reconnectDelay per attempt.
BackoffDelayLinear(attempts) == reconnectDelay * attempts

\* The delay handleReconnect computes after it has incremented the counter.
BackoffDelay(attempts) == reconnectDelay * 2 ^ (attempts - 1)

\* A handleReconnect without the test of the attempt counter.
HandleReconnectUnguarded(r) ==
    LET a == r.att + 1
    IN  [att |-> a, tm |-> Append(r.tm, BackoffDelay(a)),
         sch |-> Append(r.sch, BackoffDelay(a)), ex |-> r.ex]

\* handleReconnect up to its return, on the state r it reads and writes:
\* r.att is reconnectAttempts, r.tm the pending timers, r.sch the delays
\* scheduled since the last successful reconnect, r.ex whether the
\* exhaustion has been logged.
HandleReconnect(r) ==
    IF r.att >= maxReconnectAttempts
    THEN [r EXCEPT !.ex = TRUE]
    ELSE LET a == r.att + 1
         IN  [att |-> a, tm |-> Append(r.tm, BackoffDelay(a)),
              sch |-> Append(r.sch, BackoffDelay(a)), ex |-> r.ex]

\* n 'close' listeners run one after the other.
RECURSIVE HandleReconnectN(_, _)
HandleReconnectN(r, n) ==
    IF n = 0 THEN r ELSE HandleReconnectN(HandleReconnect(r), n - 1)

\* A timer callback that leaves the counter as it is.
ResetAttemptsKept(r) == r

\* The timer callback after connect() and subscribe() have succeeded.
ResetAttempts(r) == [r EXCEPT !.att = 0, !.sch = <<>>]

ReconnectState ==
    [att |-> reconnectAttempts, tm |-> timers, sch |-> sched, ex |-> exhaustedLogged]

\* Timers a run of n handleReconnect calls would add now.
TimersAdded(n) == Len(HandleReconnectN(ReconnectState, n).tm) - Len(timers)

SetReconnect(r) ==
    /\ reconnectAttempts' = r.att
    /\ timers' = r.tm
    /\ sched' = r.sch
    /\ exhaustedLogged' = r.ex

(***************************************************************************)
(* Broker side of a connection or channel going away: the consumers are    *)
(* gone and every message left unacknowledged on it is queued again.       *)
(***************************************************************************)
Requeued(c) ==
    [m \in Msgs |->
        IF msgs[m].st = "unacked" /\ msgs[m].ch = c
        THEN [msgs[m] EXCEPT !.st = "ready", !.ch = 0, !.redelivered = TRUE]
        ELSE msgs[m]]

ClosedConn(c) ==
    [conns EXCEPT ![c] = [@ EXCEPT !.state = "closed", !.chOpen = FALSE,
                                   !.consumers = 0]]

ClosedChannel(c) ==
    [conns EXCEPT ![c] = [@ EXCEPT !.chOpen = FALSE, !.consumers = 0]]

ChannelUsable(c) == c # 0 /\ conns[c].state = "open" /\ conns[c].chOpen

(***************************************************************************)
(* The database: migration files, the migration_history table and the      *)
(* DatabaseMigrationRunner.  Migration names are the numbers of the files' *)
(* zero-padded prefixes, so the lexicographic order of the file names is   *)
(* the order of the numbers.  A file's content is "ok" (SQL that succeeds),*)
(* "edited" (other SQL that succeeds) or "bad" (SQL that fails).           *)
(***************************************************************************)
Replicas == {1, 2}    \* 1 is this process, 2 another replica of the service
MigrationNames == 1..NMigrations
Missing == "missing"
FileContents == {"ok", "edited", "bad"}

\* SHA-256 of the content: distinct contents have distinct checksums.
CalculateChecksum(content) == <<"sha256", content>>

RECURSIVE SortedSeq(_)
SortedSeq(S) ==
    IF S = {} THEN <<>>
    ELSE LET m == CHOOSE x \in S : \A y \in S : x <= y
         IN  <<m>> \o SortedSeq(S \ {m})

\* The files in the order of a directory listing that is not sorted (here
\* the descending one).
GetAvailableMigrationsUnsorted(d) ==
    LET present == {n \in MigrationNames : d[n] # Missing}
        names == [i \in 1..Cardinality(present) |->
                    CHOOSE x \in present :
                        Cardinality({y \in present : y > x}) = i - 1]
    IN  [i \in 1..Len(names) |->
            [name |-> names[i], content |-> d[names[i]],
             checksum |-> CalculateChecksum(d[names[i]])]]

\* readdir, sort, then read and hash every file.
GetAvailableMigrations(d) ==
    LET names == SortedSeq({n \in MigrationNames : d[n] # Missing})
    IN  [i \in 1..Len(names) |->
            [name |-> names[i], content |-> d[names[i]],
             checksum |-> CalculateChecksum(d[names[i]])]]

\* SELECT * FROM migration_history ORDER BY executed_at ASC
GetExecutedMigrations == migration_history

\* A runner that takes every file for pending.
PendingUnfiltered(avail, executedNames) == avail

\* availableMigrations.filter(m => !executedNames.has(m.name))
PendingMigrations(avail, executedNames) ==
    SelectSeq(avail, LAMBDA m : m.name \notin executedNames)

\* A table whose migration_name column is not unique.
NameNeverTaken(rows, name) == FALSE

\* migration_name VARCHAR(255) NOT NULL UNIQUE: an insert of a name that a
\* committed row already has fails.
NameTaken(rows, name) == \E i \in DOMAIN rows : rows[i].migration_name = name

RowsOf(rows, name) == Cardinality({i \in DOMAIN rows : rows[i].migration_name = name})

NoTx == [open |-> FALSE, body |-> FALSE, row |-> FALSE]

\* A runner whose statements are committed one by one.
BeginNothing == NoTx

\* client.query('BEGIN')
Begin == [open |-> TRUE, body |-> FALSE, row |-> FALSE]

NoRun == [pc |-> "idle", avail |-> <<>>, pending |-> <<>>, tx |-> NoTx,
          executed |-> 0, failedAt |-> "", after |-> FALSE,
          valid |-> TRUE, reports |-> {}]

\* The catch block of executeMigration (ROLLBACK, then rethrow) and the catch
\* blocks of runMigrations and initializeDatabase, which rethrow.
Rollback(run, at) == [run EXCEPT !.tx = NoTx, !.pc = "failed", !.failedAt = at]

\* A validation that says nothing about a missing file.
MissingFileSilent(reports, name) == reports

\* logger.warn('Migration file missing: ...')
MissingFile(reports, name) == reports \cup {<<"warn", name>>}

\* The loop of validateMigrations over the executed migrations.
RECURSIVE ValidateFrom(_, _, _)
ValidateFrom(avail, executed, reports) ==
    IF executed = <<>>
    THEN [valid |-> TRUE, reports |-> reports]
    ELSE LET x == Head(executed)
             found == {i \in DOMAIN avail : avail[i].name = x.migration_name}
         IN  IF found = {}
             THEN ValidateFrom(avail, Tail(executed), MissingFile(reports, x.migration_name))
             ELSE IF avail[CHOOSE i \in found : TRUE].checksum # x.checksum
                  THEN [valid |-> FALSE,
                        reports |-> reports \cup {<<"error", x.migration_name>>}]
                  ELSE ValidateFrom(avail, Tail(executed), reports)

\* validateMigrations(): an error while reading the files or the table is
\* caught, logged as 'Migration validation failed' and answered with false.
ValidateMigrations(readable) ==
    IF readable
    THEN LET v == ValidateFrom(GetAvailableMigrations(disk), GetExecutedMigrations, {})
         IN  [valid |-> v.valid, reports |-> v.reports, threw |-> FALSE]
    ELSE [valid |-> FALSE, reports |-> {<<"failed", 0>>}, threw |-> FALSE]

\* An initializeDatabase that treats a failed validation as an error.
AfterValidationFatal(migrationsValid) ==
    IF migrationsValid THEN "done" ELSE "failed"

\* initializeDatabase after validateMigrations: a warning when the result is
\* false, then the success log in both cases.
AfterValidation(migrationsValid) ==
    IF migrationsValid THEN "done" ELSE "done"

\* A startConsumer that goes on after initializeDatabase has thrown.
DatabaseReadyOrFailed == runs[1].pc \in {"done", "failed"}

\* startConsumer continues past `await initializeDatabase()` when it returns.
DatabaseReady == runs[1].pc = "done"

\* Replica 1 is this process: its code runs until process.exit.
Alive(r) == r # 1 \/ ~exited

(***************************************************************************)
(* Configuration: process.env and validateConfig().  The value of a        *)
(* variable that a validator reads character by character is a sequence of *)
(* characters; MESSAGING_PROVIDER, which is only compared as a whole, is a *)
(* string.  Four of the validation rules stand for all seventeen: every    *)
(* rule is optional and has a default, and they use the same validators.   *)
(***************************************************************************)
Undefined == [set |-> FALSE, value |-> <<>>]
Value(text) == [set |-> TRUE, value |-> text]

\* A test that takes only an absent variable for unset.
FalsyWhenAbsent(x) == ~x.set

\* `!value`: undefined or the empty string.
Falsy(x) == ~x.set \/ x.value = <<>>

DigitChars == <<"0", "1", "2", "3", "4", "5", "6", "7", "8", "9">>
IsDigit(c) == \E i \in DOMAIN DigitChars : DigitChars[i] = c
DigitValue(c) == (CHOOSE i \in DOMAIN DigitChars : DigitChars[i] = c) - 1

RECURSIVE LeadingDigits(_)
LeadingDigits(text) ==
    IF text # <<>> /\ IsDigit(Head(text))
    THEN <<Head(text)>> \o LeadingDigits(Tail(text))
    ELSE <<>>

RECURSIVE DecimalValue(_)
DecimalValue(digits) ==
    IF digits = <<>> THEN 0
    ELSE 10 * DecimalValue(SubSeq(digits, 1, Len(digits) - 1))
           + DigitValue(digits[Len(digits)])

RECURSIVE TrimStart(_)
TrimStart(text) ==
    IF text # <<>> /\ Head(text) = " " THEN TrimStart(Tail(text)) ELSE text

\* parseInt(text, 10): leading blanks, an optional sign, then the longest
\* prefix of digits; NaN when there is no digit.
ParseInt(text) ==
    LET t == TrimStart(text)
        signed == t # <<>> /\ Head(t) \in {"-", "+"}
        digits == LeadingDigits(IF signed THEN Tail(t) ELSE t)
    IN  IF digits = <<>>
        THEN [nan |-> TRUE, n |-> 0]
        ELSE [nan |-> FALSE,
              n |-> IF signed /\ Head(t) = "-"
                    THEN 0 - DecimalValue(digits) ELSE DecimalValue(digits)]

LowerOf == ("I" :> "i") @@ ("N" :> "n") @@ ("F" :> "f") @@ ("O" :> "o") @@
           ("T" :> "t") @@ ("R" :> "r") @@ ("U" :> "u") @@ ("E" :> "e")
ToLowerCase(text) ==
    [i \in DOMAIN text |-> IF text[i] \in DOMAIN LowerOf THEN LowerOf[text[i]] ELSE text[i]]

isValidPort(port) ==
    LET portNum == ParseInt(port)
    IN  ~portNum.nan /\ portNum.n > 0 /\ portNum.n <= 65535

validLevels ==
    {<<"e", "r", "r", "o", "r">>, <<"w", "a", "r", "n">>, <<"i", "n", "f", "o">>,
     <<"h", "t", "t", "p">>, <<"v", "e", "r", "b", "o", "s", "e">>,
     <<"d", "e", "b", "u", "g">>, <<"s", "i", "l", "l", "y">>}
isValidLogLevel(level) == ToLowerCase(level) \in validLevels

isValidBoolean(value) ==
    ToLowerCase(value) \in {<<"t", "r", "u", "e">>, <<"f", "a", "l", "s", "e">>}

\* The rules in the order of Object.entries(validationRules).
RuleKeys == <<"PORT", "POSTGRES_PORT", "DB_SSL", "LOG_LEVEL">>
validationRules ==
    [PORT |-> [required |-> FALSE, default |-> <<"9", "0", "1", "2">>],
     POSTGRES_PORT |-> [required |-> FALSE, default |-> <<"5", "4", "3", "2">>],
     DB_SSL |-> [required |-> FALSE, default |-> <<"f", "a", "l", "s", "e">>],
     LOG_LEVEL |-> [required |-> FALSE, default |-> <<"i", "n", "f", "o">>]]

Validator(key, value) ==
    CASE key = "PORT" -> isValidPort(value)
      [] key = "POSTGRES_PORT" -> isValidPort(value)
      [] key = "DB_SSL" -> isValidBoolean(value)
      [] key = "LOG_LEVEL" -> isValidLogLevel(value)

\* One pass of the loop of validateConfig over a rule: acc is the
\* environment and the keys that produced an error so far.
ValidateRule(acc, key) ==
    LET rule == validationRules[key]
        value == acc.env[key]
    IN  IF rule.required /\ Falsy(value)
        THEN [acc EXCEPT !.errors = @ \cup {key}]
        ELSE IF Falsy(value)
             THEN IF rule.default # <<>>
                  THEN [acc EXCEPT !.env[key] = Value(rule.default)]
                  ELSE acc
             ELSE IF ~Validator(key, value.value)
                  THEN [acc EXCEPT !.errors = @ \cup {key}]
                  ELSE acc

RECURSIVE ValidateRules(_, _)
ValidateRules(acc, keys) ==
    IF keys = <<>> THEN acc
    ELSE ValidateRules(ValidateRule(acc, Head(keys)), Tail(keys))

\* validateConfig(): the environment it leaves and whether it throws.
validateConfig(e) ==
    LET r == ValidateRules([env |-> e, errors |-> {}], RuleKeys)
    IN  [env |-> r.env, errors |-> r.errors, threw |-> r.errors # {}]

ProviderUnset == [set |-> FALSE, value |-> ""]
Provider(name) == [set |-> TRUE, value |-> name]

\* isDaprAvailable(): the health request answered with a 2xx status ("ok"),
\* or it answered otherwise, timed out or was refused ("failed").
ProbeResults == {"ok", "failed"}

\* A resolution in which a reachable sidecar wins over MESSAGING_PROVIDER.
ResolveProviderProbeFirst(e, probe) ==
    IF probe = "ok" THEN "dapr"
    ELSE IF e.MESSAGING_PROVIDER.set /\ e.MESSAGING_PROVIDER.value # ""
         THEN e.MESSAGING_PROVIDER.value
         ELSE "rabbitmq"

\* process.env.MESSAGING_PROVIDER || (daprAvailable ? 'dapr' : 'rabbitmq')
ResolveProvider(e, probe) ==
    IF e.MESSAGING_PROVIDER.set /\ e.MESSAGING_PROVIDER.value # ""
    THEN e.MESSAGING_PROVIDER.value
    ELSE IF probe = "ok" THEN "dapr" ELSE "rabbitmq"

\* The values MESSAGING_PROVIDER takes in the deployments.
Providers ==
    {ProviderUnset, Provider(""), Provider("dapr"), Provider("rabbitmq"),
     Provider("kafka")}

\* The environments validateConfig() is tried on.
Envs ==
    [PORT : {Undefined, Value(<<>>), Value(<<"9", "0", "1", "2">>), Value(<<"0">>),
             Value(<<"6", "5", "5", "3", "5">>), Value(<<"6", "5", "5", "3", "6">>),
             Value(<<"a", "b", "c">>), Value(<<"8", "0", "a">>)},
     POSTGRES_PORT : {Undefined, Value(<<"5", "4", "3", "3">>), Value(<<"-", "1">>)},
     DB_SSL : {Undefined, Value(<<"T", "R", "U", "E">>), Value(<<"y", "e", "s">>)},
     LOG_LEVEL : {Undefined, Value(<<>>), Value(<<"I", "N", "F", "O">>),
                  Value(<<"l", "o", "u", "d">>)},
     SERVICE_NAME : {Undefined, Value(<<"a", "u", "d", "i", "t">>)},
     MESSAGING_PROVIDER : {ProviderUnset}]

\* The environment of a deployment that sets nothing but the service name.
DeployedEnv ==
    [PORT |-> Undefined, POSTGRES_PORT |-> Undefined, DB_SSL |-> Undefined,
     LOG_LEVEL |-> Undefined, SERVICE_NAME |-> Value(<<"a", "u", "d", "i", "t">>),
     MESSAGING_PROVIDER |-> ProviderUnset]

(***************************************************************************)
(* The audit persistence and query service (AuditLogService).  An entry is *)
(* reduced to two of its filterable fields; a row is an entry with the id  *)
(* the table assigned, and ids grow with the time of the insert.           *)
(***************************************************************************)
Absent == "absent"
ServiceNames == {"user-service", "order-service"}
UserIds == {"user-123", "user-789"}
Entries == [serviceName : ServiceNames, userId : UserIds]
FilterFields == {"serviceName", "userId"}
Filters == [serviceName : ServiceNames \cup {Absent}, userId : UserIds \cup {Absent}]
QueryErrors == {"Database connection failed", "Query failed"}
QueryOutcomes == {"ok"} \cup QueryErrors
\* What the pool answers to the queries of one call, in order.
OutcomeSeqs == {<<"ok", "ok">>} \cup {<<e>> : e \in QueryErrors}
                   \cup {<<"ok", e>> : e \in QueryErrors}

NoCall == [op |-> "none", queries |-> 0, failed |-> "", failedAt |-> 0,
           rejected |-> "", logged |-> FALSE, filter |-> [serviceName |-> Absent, userId |-> Absent],
           limit |-> 0, offset |-> 0, total |-> 0, logs |-> <<>>]

\* A service that answers a failed query by issuing it once more.
OnQueryErrorRetry(call, error, n) ==
    [call EXCEPT !.queries = n + 1, !.failed = error, !.failedAt = n, !.logged = TRUE]

\* The catch block of a service operation: the error is logged and thrown
\* again, nothing else is asked of the pool.
OnQueryError(call, error, n) ==
    [call EXCEPT !.queries = n, !.failed = error, !.failedAt = n,
                 !.rejected = error, !.logged = TRUE]

\* A predicate that joins the conditions of the filter with OR.
MatchesAny(row, filter) ==
    \E f \in FilterFields : filter[f] # Absent /\ row[f] = filter[f]

\* The WHERE clause: one condition per filter field that is present, all
\* joined with AND.
Matches(row, filter) ==
    \A f \in {g \in FilterFields : filter[g] # Absent} : row[f] = filter[f]

\* SELECT COUNT(*) ... WHERE ...: no LIMIT, no OFFSET.
CountQuery(rows, filter) ==
    Cardinality({i \in DOMAIN rows : Matches(rows[i], filter)})

\* The rows in the order of the page query: most recent first, ties by id.
RECURSIVE Newest(_)
Newest(rows) ==
    IF rows = <<>> THEN <<>>
    ELSE <<rows[Len(rows)]>> \o Newest(SubSeq(rows, 1, Len(rows) - 1))

\* SELECT ... WHERE ... ORDER BY ... LIMIT limit OFFSET offset
PageQuery(rows, filter, limit, offset) ==
    LET matching == SelectSeq(Newest(rows), LAMBDA row : Matches(row, filter))
        last_ == IF offset + limit < Len(matching) THEN offset + limit ELSE Len(matching)
    IN  SubSeq(matching, offset + 1, last_)

(***************************************************************************)
(* DatabaseConnection: the singleton that owns the pg Pool.  A pool is     *)
(* "open" from `new Pool`, "ending" from pool.end() until its promise      *)
(* resolves, then "ended".                                                 *)
(***************************************************************************)
Signals == 1..MaxSignals
Pools == 1..MaxPools

NoDbCall == [op |-> "", before |-> 0, since |-> FALSE, returned |-> 0,
             threw |-> FALSE, created |-> FALSE, ended |-> FALSE]
NoShutdown == [pc |-> "idle", stopped |-> FALSE, closed |-> FALSE, target |-> 0]

\* Pools constructed so far.
Created(ps) == Cardinality({q \in Pools : ps[q] # "none"})

\* initialize(): the existing pool, or a new one stored in this.pool.  The
\* method has no await between the test and the assignment.
Initialize(p, ps) ==
    IF p # 0
    THEN [pool |-> p, pools |-> ps]
    ELSE [pool |-> Created(ps) + 1,
          pools |-> [ps EXCEPT ![Created(ps) + 1] = "open"]]

\* getPool(): this.pool, or the error 'Database pool not initialized'.
GetPool(p) == [returned |-> p, threw |-> (p = 0)]

\* A close() that leaves this.pool as it is when pool.end() has resolved.
PoolAfterCloseKept(p) == p

\* close() after `await this.pool.end()`: this.pool = null.
PoolAfterClose(p) == 0

(***************************************************************************)
(* Pooled clients: the operations of the migration runner and              *)
(* testConnection() at the level of their queries.  Each acquires a client *)
(* with pool.connect(), runs its statements inside try, and releases the   *)
(* client in finally.                                                      *)
(***************************************************************************)
Slots == 1..MaxOps

OpKinds == {"ensureMigrationHistoryTable", "getExecutedMigrations",
            "executeMigration", "testConnection"}

\* The statements an operation sends on its client, in order.
Statements(kind) ==
    CASE kind = "ensureMigrationHistoryTable" -> <<"CREATE TABLE">>
      [] kind = "getExecutedMigrations" -> <<"SELECT">>
      [] kind = "executeMigration" -> <<"BEGIN", "body", "INSERT", "COMMIT">>
      [] kind = "testConnection" -> <<"SELECT NOW()">>

QueryResults == {"ok", "error", "does not exist"}

NoOp == [kind |-> "", pc |-> "idle", step |-> 0, held |-> FALSE, acquired |-> 0,
         released |-> 0, rollback |-> "none", threw |-> FALSE]

\* Where a failed statement takes the operation: executeMigration has a
\* catch block that sends ROLLBACK, the others go to finally.
OnStatementError(kind) == IF kind = "executeMigration" THEN "rollback" ELSE "finally"

\* Whether the operation ends by throwing after a statement failed with
\* result: getExecutedMigrations returns [] for a missing table, and
\* testConnection returns false.
Rethrows(kind, result) ==
    CASE kind = "getExecutedMigrations" -> result # "does not exist"
      [] kind = "testConnection" -> FALSE
      [] OTHER -> TRUE

\* A catch block whose failing ROLLBACK leaves the function at once.
AfterRollbackUnwinds(ok) == IF ok THEN "finally" ELSE "done"

\* Where the catch block of executeMigration leaves the operation: the throw
\* of the block, or of a failing ROLLBACK, passes through finally.
AfterRollback(ok) == "finally"

(***************************************************************************)
(* Initial state: the module has been loaded, nothing has started.         *)
(***************************************************************************)
InitProcess ==
    /\ connection = 0
    /\ channel = 0
    /\ reconnectAttempts = 0
    /\ timers = <<>>
    /\ tasks = <<>>
    /\ stopPc = "idle"
    /\ pending = {}
    /\ conns = [c \in Conns |-> NoConn]
    /\ nConns = 0
    /\ brokerUp = TRUE
    /\ msgs = [m \in Msgs |-> NoMsg]
    /\ appPc = "boot"
    /\ consumerState = [connected |-> FALSE, consuming |-> FALSE, messagesProcessed |-> 0]
    /\ exited = FALSE
    /\ auditLogs = [i \in 0..MaxMsgs |-> 0]
    /\ auditRecords = [i \in 0..MaxMsgs |-> 0]
    /\ deliveries = [m \in Msgs |-> 0]
    /\ pushes = [b \in Bodies |-> 0]
    /\ last = NoDelivery
    /\ sched = <<>>
    /\ exhaustedLogged = FALSE
    /\ stopCalled = FALSE
    /\ timersAtStop = 0
    /\ stopOps = <<>>
    /\ daprAvailable = "none"
    /\ messagingProvider = ""
    /\ audit_logs = <<>>
    /\ svc = NoCall
    /\ checkedOut = 0
    /\ poolOps = [s \in Slots |-> NoOp]
    /\ dbCall = NoDbCall
    /\ shutdowns = [r \in Signals |-> NoShutdown]

\* A database no replica has initialised yet.
InitDatabase ==
    /\ runs = [r \in Replicas |-> NoRun]
    /\ disk \in [MigrationNames -> {"ok", "bad"}]
    /\ migration_history = <<>>
    /\ applied = [n \in MigrationNames |-> 0]
    /\ edits = 0
    /\ pool = 0
    /\ pools = [q \in Pools |-> "none"]
    /\ sinceClose = FALSE

\* The environment before startConsumer has validated it.
InitEnv ==
    /\ env = DeployedEnv
    /\ configPc = "unchecked"

Init == InitProcess /\ InitDatabase /\ InitEnv

\* Any of the environments, not yet validated.
InitConfig ==
    /\ InitProcess
    /\ InitDatabase
    /\ env \in Envs
    /\ configPc = "unchecked"

\* The state in which this process has initialised a database that replica 2
\* had migrated before: nothing was pending, the validation found no problem.
Migrated ==
    /\ disk = [n \in MigrationNames |-> "ok"]
    /\ migration_history =
           [n \in MigrationNames |->
               [migration_name |-> n, checksum |-> CalculateChecksum("ok")]]
    /\ applied = [n \in MigrationNames |-> 1]
    /\ edits = 0
    /\ runs = [r \in Replicas |->
                 [NoRun EXCEPT !.pc = "done",
                               !.avail = GetAvailableMigrations(disk),
                               !.executed = IF r = 2 THEN NMigrations ELSE 0,
                               !.after = (r = 1)]]
    /\ pool = Initialize(0, [q \in Pools |-> "none"]).pool
    /\ pools = Initialize(0, [q \in Pools |-> "none"]).pools
    /\ sinceClose = TRUE

InitMigrated ==
    /\ InitProcess
    /\ Migrated
    /\ env = validateConfig(DeployedEnv).env
    /\ configPc = "valid"

\* startConsumer up to its first await: validateConfig(); when it throws,
\* the catch block of startConsumer calls process.exit(1).
ValidateConfig ==
    /\ ~exited
    /\ appPc = "boot"
    /\ configPc = "unchecked"
    /\ env' = validateConfig(env).env
    /\ configPc' = IF validateConfig(env).threw THEN "failed" ELSE "valid"
    /\ exited' = IF validateConfig(env).threw THEN TRUE ELSE exited
    /\ UNCHANGED <<consumerVars, brokerVars, msgVars, appPc, consumerState, sched,
                   exhaustedLogged, stopVars, dbVars, providerVars, storeVars, poolVars>>

(***************************************************************************)
(* startConsumer: the database is initialised, the provider is resolved,   *)
(* the HTTP server is started; in RabbitMQ mode start() is called and runs *)
(* up to `await amqp.connect(url)`.                                        *)
(***************************************************************************)
StartConsumer(probe) ==
    /\ ~exited
    /\ appPc = "boot"
    /\ DatabaseReady
    /\ daprAvailable' = probe
    /\ messagingProvider' = ResolveProvider(env, probe)
    /\ appPc' = IF messagingProvider' = "dapr" THEN "dapr" ELSE "rabbitmq"
    /\ IF messagingProvider' = "dapr"
       THEN /\ consumerState' = [consumerState EXCEPT !.connected = TRUE, !.consuming = TRUE]
            /\ UNCHANGED tasks
       ELSE /\ consumerState' = [consumerState EXCEPT !.connected = TRUE]
            /\ tasks' = Append(tasks, [kind |-> "start", pc |-> "connect", ch |-> 0])
    /\ UNCHANGED <<connection, channel, reconnectAttempts, timers, stopPc, brokerVars,
                   msgVars, exited, sched, exhaustedLogged, stopVars>>
    /\ UNCHANGED <<dbVars, envVars, storeVars, poolVars>>

(***************************************************************************)
(* A connection attempt (start(), or the timer callback of handleReconnect)*)
(* that failed: its catch block calls handleReconnect.  start() then       *)
(* resolves and startConsumer sets consumerState.consuming.                *)
(***************************************************************************)
AttemptFails(i) ==
    /\ tasks' = RemoveAt(tasks, i)
    /\ SetReconnect(HandleReconnect(ReconnectState))
    /\ consumerState' = IF tasks[i].kind = "start"
                        THEN [consumerState EXCEPT !.consuming = TRUE]
                        ELSE consumerState

\* connect(): `this.connection = await amqp.connect(this.url)`, then
\* createChannel() is called on it.
ConnectWithin(i, limit) ==
    /\ ~exited
    /\ i \in DOMAIN tasks
    /\ tasks[i].pc = "connect"
    /\ pending = {}
    /\ IF brokerUp
       THEN /\ nConns < limit
            /\ nConns' = nConns + 1
            /\ conns' = [conns EXCEPT ![nConns + 1] = [NoConn EXCEPT !.state = "open"]]
            /\ connection' = nConns + 1
            /\ tasks' = [tasks EXCEPT ![i] = [@ EXCEPT !.pc = "channel",
                                                       !.ch = nConns + 1]]
            /\ UNCHANGED <<reconnectAttempts, timers, sched, exhaustedLogged,
                           consumerState>>
       ELSE /\ AttemptFails(i)
            /\ UNCHANGED <<nConns, conns, connection>>
    /\ UNCHANGED <<channel, stopPc, brokerUp, msgVars, appVars, stopVars>>
    /\ UNCHANGED <<dbVars, envVars, providerVars, storeVars, poolVars>>

ConnectResolves(i) == ConnectWithin(i, MaxConns)

\* connect(): `this.channel = await this.connection.createChannel()`, then
\* prefetch, assertExchange and assertQueue are issued on that channel.
ChannelResolves(i) ==
    /\ ~exited
    /\ i \in DOMAIN tasks
    /\ tasks[i].pc = "channel"
    /\ LET c == tasks[i].ch
       IN  IF conns[c].state = "open"
           THEN /\ conns' = [conns EXCEPT ![c] = [@ EXCEPT !.chOpen = TRUE]]
                /\ channel' = c
                /\ tasks' = [tasks EXCEPT ![i] = [@ EXCEPT !.pc = "setup"]]
                /\ UNCHANGED <<reconnectAttempts, timers, sched, exhaustedLogged,
                               consumerState>>
           ELSE /\ AttemptFails(i)
                /\ UNCHANGED <<conns, channel>>
    /\ UNCHANGED <<connection, stopPc, nConns, brokerUp, msgVars, appVars, stopVars>>
    /\ UNCHANGED <<dbVars, envVars, providerVars, storeVars, poolVars>>

\* connect(): the queue is asserted; the 'close' listener is registered on
\* this.connection; connect() returns and subscribe() reads this.channel and
\* issues the bindings and consume on it.
SetupResolves(i) ==
    /\ ~exited
    /\ i \in DOMAIN tasks
    /\ tasks[i].pc = "setup"
    /\ LET c == tasks[i].ch
       IN  IF ChannelUsable(c) /\ connection # 0
           THEN /\ conns' = [conns EXCEPT ![connection] =
                                [@ EXCEPT !.listeners = @ + 1]]
                /\ IF channel # 0
                   THEN /\ tasks' = [tasks EXCEPT ![i] =
                                        [@ EXCEPT !.pc = "subscribe", !.ch = channel]]
                        /\ UNCHANGED <<reconnectAttempts, timers, sched,
                                       exhaustedLogged, consumerState>>
                   ELSE AttemptFails(i)
           ELSE /\ AttemptFails(i)
                /\ UNCHANGED conns
    /\ UNCHANGED <<connection, channel, stopPc, nConns, brokerUp, msgVars, appVars,
                   stopVars>>
    /\ UNCHANGED <<dbVars, envVars, providerVars, storeVars, poolVars>>

\* subscribe(): the bindings and consume are confirmed.  In the timer
\* callback the attempt counter is reset; start() resolves.
SubscribeResolves(i) ==
    /\ ~exited
    /\ i \in DOMAIN tasks
    /\ tasks[i].pc = "subscribe"
    /\ LET c == tasks[i].ch
       IN  IF ChannelUsable(c)
           THEN /\ conns' = [conns EXCEPT ![c] = [@ EXCEPT !.consumers = @ + 1]]
                /\ tasks' = RemoveAt(tasks, i)
                /\ IF tasks[i].kind = "timer"
                   THEN /\ SetReconnect(ResetAttempts(ReconnectState))
                        /\ UNCHANGED consumerState
                   ELSE /\ consumerState' = [consumerState EXCEPT !.consuming = TRUE]
                        /\ UNCHANGED <<reconnectAttempts, timers, sched,
                                       exhaustedLogged>>
           ELSE /\ AttemptFails(i)
                /\ UNCHANGED conns
    /\ UNCHANGED <<connection, channel, stopPc, nConns, brokerUp, msgVars, appVars,
                   stopVars>>
    /\ UNCHANGED <<dbVars, envVars, providerVars, storeVars, poolVars>>

\* A reconnect timer fires: its callback runs up to `await amqp.connect(url)`.
TimerFires(j) ==
    /\ ~exited
    /\ j \in DOMAIN timers
    /\ pending = {}
    /\ timers' = RemoveAt(timers, j)
    /\ timersAtStop' = IF j <= timersAtStop THEN timersAtStop - 1 ELSE timersAtStop
    /\ tasks' = Append(tasks, [kind |-> "timer", pc |-> "connect", ch |-> 0])
    /\ UNCHANGED <<connection, channel, reconnectAttempts, stopPc, brokerVars, msgVars,
                   appVars, consumerState, sched, exhaustedLogged, stopCalled, stopOps>>
    /\ UNCHANGED <<dbVars, envVars, providerVars, storeVars, poolVars>>

(***************************************************************************)
(* The broker or the network.                                              *)
(***************************************************************************)

\* A connection is lost: the client emits 'close' and every listener
\* registered on it calls handleReconnect.
ConnectionLost(c) ==
    /\ ~exited
    /\ c \in Conns
    /\ conns[c].state = "open"
    /\ Len(timers) + Len(tasks) + TimersAdded(conns[c].listeners) <= MaxPending
    /\ conns' = ClosedConn(c)
    /\ msgs' = Requeued(c)
    /\ SetReconnect(HandleReconnectN(ReconnectState, conns[c].listeners))
    /\ UNCHANGED <<connection, channel, tasks, stopPc, pending, nConns, brokerUp,
                   appVars, consumerState, trailVars,
                   stopVars>>
    /\ UNCHANGED <<dbVars, envVars, providerVars, storeVars, poolVars>>

BrokerDown ==
    /\ ~exited
    /\ brokerUp
    /\ brokerUp' = FALSE
    /\ UNCHANGED <<consumerVars, pending, conns, nConns, msgs, appVars, consumerState,
                   trailVars, sched, exhaustedLogged,
                   stopVars>>
    /\ UNCHANGED <<dbVars, envVars, providerVars, storeVars, poolVars>>

BrokerBack ==
    /\ ~exited
    /\ ~brokerUp
    /\ brokerUp' = TRUE
    /\ UNCHANGED <<consumerVars, pending, conns, nConns, msgs, appVars, consumerState,
                   trailVars, sched, exhaustedLogged,
                   stopVars>>
    /\ UNCHANGED <<dbVars, envVars, providerVars, storeVars, poolVars>>

(***************************************************************************)
(* gracefulShutdown, with stop() in line.                                  *)
(***************************************************************************)

\* A stop() whose close error leaves it as an exception.
StopRethrows(ops) == [pc |-> "threw", ops |-> ops]

\* The catch block of stop(): the error of a close call is logged and
\* stop() returns.
StopCatch(ops) == [pc |-> "closeDb", ops |-> Append(ops, "caught")]

\* connection.close() of stop(): the connection closes and emits 'close'.
StopClosesConnection ==
    IF conns[connection].state = "open"
    THEN /\ Len(timers) + Len(tasks) + TimersAdded(conns[connection].listeners)
               <= MaxPending
         /\ conns' = ClosedConn(connection)
         /\ msgs' = Requeued(connection)
         /\ SetReconnect(HandleReconnectN(ReconnectState, conns[connection].listeners))
         /\ stopPc' = "conn"
         /\ stopOps' = Append(stopOps, "connection.close")
    ELSE \* closing a closed connection throws
         /\ stopPc' = StopCatch(Append(stopOps, "connection.close")).pc
         /\ stopOps' = StopCatch(Append(stopOps, "connection.close")).ops
         /\ UNCHANGED <<conns, msgs, reconnectAttempts, timers, sched, exhaustedLogged>>

\* A shutdown signal: consumerState.consuming is cleared, then
\* `await consulDeregister()`.
GracefulShutdown ==
    /\ ~exited
    /\ stopPc = "idle"
    /\ pending = {}
    /\ stopPc' = "deregister"
    /\ consumerState' = [consumerState EXCEPT !.consuming = FALSE]
    /\ UNCHANGED <<connection, channel, reconnectAttempts, timers, tasks, pending,
                   brokerVars, msgs, appVars, trailVars,
                   sched, exhaustedLogged, stopVars>>
    /\ UNCHANGED <<dbVars, envVars, providerVars, storeVars, poolVars>>

\* stop() up to its first await.
StopBegins ==
    /\ ~exited
    /\ stopPc = "deregister"
    /\ stopCalled' = TRUE
    /\ timersAtStop' = Len(timers)
    /\ IF channel # 0
       THEN IF conns[channel].chOpen
            THEN /\ conns' = ClosedChannel(channel)
                 /\ msgs' = Requeued(channel)
                 /\ stopPc' = "chan"
                 /\ stopOps' = Append(stopOps, "channel.close")
                 /\ UNCHANGED <<reconnectAttempts, timers, sched, exhaustedLogged>>
            ELSE \* closing a closed channel throws
                 /\ stopPc' = StopCatch(Append(stopOps, "channel.close")).pc
                 /\ stopOps' = StopCatch(Append(stopOps, "channel.close")).ops
                 /\ UNCHANGED <<conns, msgs, reconnectAttempts, timers, sched,
                                exhaustedLogged>>
       ELSE IF connection # 0
            THEN StopClosesConnection
            ELSE /\ stopPc' = "closeDb"
                 /\ UNCHANGED <<conns, msgs, reconnectAttempts, timers, sched,
                                exhaustedLogged, stopOps>>
    /\ UNCHANGED <<connection, channel, tasks, pending, nConns, brokerUp, appVars,
                   consumerState, trailVars>>
    /\ UNCHANGED <<dbVars, envVars, providerVars, storeVars, poolVars>>

\* stop(): channel.close() has resolved.
StopChannelClosed ==
    /\ ~exited
    /\ stopPc = "chan"
    /\ channel' = 0
    /\ IF connection # 0
       THEN StopClosesConnection
       ELSE /\ stopPc' = "closeDb"
            /\ UNCHANGED <<conns, msgs, reconnectAttempts, timers, sched,
                           exhaustedLogged, stopOps>>
    /\ UNCHANGED <<connection, tasks, pending, nConns, brokerUp, appVars, consumerState,
                   trailVars, stopCalled, timersAtStop>>
    /\ UNCHANGED <<dbVars, envVars, providerVars, storeVars, poolVars>>

\* stop(): connection.close() has resolved.
StopConnectionClosed ==
    /\ ~exited
    /\ stopPc = "conn"
    /\ connection' = 0
    /\ stopPc' = "closeDb"
    /\ UNCHANGED <<channel, reconnectAttempts, timers, tasks, pending, brokerVars, msgs,
                   appVars, consumerState, trailVars,
                   sched, exhaustedLogged, stopVars>>
    /\ UNCHANGED <<dbVars, envVars, providerVars, storeVars, poolVars>>

\* The pool is closed, consumerState.connected is cleared, process.exit.
ShutdownExits ==
    /\ ~exited
    /\ stopPc = "closeDb"
    /\ stopPc' = "done"
    /\ consumerState' = [consumerState EXCEPT !.connected = FALSE]
    /\ exited' = TRUE
    /\ UNCHANGED <<connection, channel, reconnectAttempts, timers, tasks, pending,
                   brokerVars, msgs, appPc, trailVars,
                   sched, exhaustedLogged, stopVars>>
    /\ UNCHANGED <<dbVars, envVars, providerVars, storeVars, poolVars>>

(***************************************************************************)
(* Messages.                                                               *)
(***************************************************************************)

\* A producer publishes a message that is routed to the queue.
Publish(m, k, b) ==
    /\ ~exited
    /\ m \in Msgs
    /\ msgs[m].st = "none"
    /\ \A n \in Msgs : n < m => msgs[n].st # "none"
    /\ msgs' = [msgs EXCEPT ![m] = [NoMsg EXCEPT !.key = k, !.content = b,
                                                 !.st = "ready"]]
    /\ UNCHANGED <<consumerVars, pending, brokerVars, appVars, consumerState,
                   trailVars, sched, exhaustedLogged,
                   stopVars>>
    /\ UNCHANGED <<dbVars, envVars, providerVars, storeVars, poolVars>>

RECURSIVE Sum(_, _)
Sum(f, S) == IF S = {} THEN 0 ELSE LET x == CHOOSE y \in S : TRUE
                                   IN  f[x] + Sum(f, S \ {x})

\* Consume callbacks and push requests started so far.
NDeliveries == Sum(deliveries, Msgs) + Sum(pushes, Bodies)

Unacked(c) == {m \in Msgs : msgs[m].st = "unacked" /\ msgs[m].ch = c}

Completed(m, r, ops) ==
    [mode |-> "pull", msg |-> m, key |-> msgs[m].key, content |-> msgs[m].content,
     handler |-> r.handler, invoked |-> r.invoked, ok |-> r.ok, settle |-> ops,
     status |-> 0, responses |-> <<>>]

\* The broker delivers message m on channel c and the consume callback runs
\* up to its first suspension (or to its end).
Deliver(m, c) ==
    /\ ~exited
    /\ m \in Msgs /\ c \in Conns
    /\ ChannelUsable(c)
    /\ conns[c].consumers > 0
    /\ msgs[m].st = "ready"
    /\ Cardinality(Unacked(c)) < prefetch
    /\ NDeliveries < MaxDeliveries
    /\ LET r == ConsumeSync(msgs[m].key, msgs[m].content)
       IN  /\ deliveries' = [deliveries EXCEPT ![m] = @ + 1]
           /\ consumerState' = [consumerState EXCEPT !.messagesProcessed = @ + r.tracked]
           /\ auditRecords' = Emit(auditRecords, m, r.records)
           /\ auditLogs' = [auditLogs EXCEPT ![m] = @ + r.rows]
           /\ CASE r.next = "ack" ->
                     /\ msgs' = [msgs EXCEPT ![m] = [@ EXCEPT !.st = "acked"]]
                     /\ last' = Completed(m, r, <<"ack">>)
                     /\ UNCHANGED pending
                [] r.next = "nack" ->
                     /\ msgs' = [msgs EXCEPT ![m] = [@ EXCEPT !.st = "ready",
                                                             !.redelivered = TRUE]]
                     /\ last' = Completed(m, r, <<"nack">>)
                     /\ UNCHANGED pending
                [] OTHER ->
                     /\ msgs' = [msgs EXCEPT ![m] = [@ EXCEPT !.st = "unacked", !.ch = c]]
                     /\ pending' = pending \cup
                            {[msg |-> m, ch |-> c, handler |-> r.handler,
                              invoked |-> r.invoked, ok |-> r.ok]}
                     /\ UNCHANGED last
    /\ UNCHANGED <<consumerVars, brokerVars, appVars, pushes, sched, exhaustedLogged,
                   stopVars>>
    /\ UNCHANGED <<dbVars, envVars, providerVars, storeVars, poolVars>>

\* `await handler(event)` resumes: trackMessageProcessed(), channel.ack(msg).
\* On a closed channel ack throws, and so does the nack of the catch block:
\* the callback ends with neither.
Settle(p) ==
    /\ ~exited
    /\ p \in pending
    /\ pending' = pending \ {p}
    /\ consumerState' = [consumerState EXCEPT !.messagesProcessed = @ + 1]
    /\ IF ChannelUsable(p.ch)
       THEN /\ msgs' = [msgs EXCEPT ![p.msg] = [@ EXCEPT !.st = "acked"]]
            /\ last' = Completed(p.msg, p, <<"ack">>)
       ELSE /\ last' = Completed(p.msg, p, <<>>)
            /\ UNCHANGED msgs
    /\ UNCHANGED <<consumerVars, brokerVars, appVars, auditLogs, auditRecords,
                   deliveries, pushes,
                   sched, exhaustedLogged, stopVars>>
    /\ UNCHANGED <<dbVars, envVars, providerVars, storeVars, poolVars>>

\* Push mode: the sidecar posts an event to a route; body is the request
\* body as the handler sees it ("null": no parsed body).
PushDeliver(route, body) ==
    /\ ~exited
    /\ appPc # "boot"
    /\ pending = {}
    /\ route \in PushRoutes
    /\ NDeliveries < MaxDeliveries
    /\ LET e == HandleEvent(body)
       IN  /\ pushes' = [pushes EXCEPT ![body] = @ + 1]
           /\ consumerState' = [consumerState EXCEPT !.messagesProcessed = @ + e.tracked]
           /\ auditRecords' = Emit(auditRecords, 0, e.records)
           /\ auditLogs' = [auditLogs EXCEPT ![0] = @ + e.rows]
           /\ last' = [mode |-> "push", msg |-> 0, key |-> route, content |-> body,
                       handler |-> "table", invoked |-> TRUE, ok |-> e.ok,
                       settle |-> <<>>, status |-> e.status,
                       responses |-> e.responses]
    /\ UNCHANGED <<consumerVars, pending, brokerVars, msgs, deliveries, appVars, sched,
                   exhaustedLogged, stopVars>>
    /\ UNCHANGED <<dbVars, envVars, providerVars, storeVars, poolVars>>

(***************************************************************************)
(* initializeDatabase() and the migration runner, one step per await.      *)
(***************************************************************************)
\* db.initialize(), testConnection() and ensureMigrationHistoryTable(); a
\* database that cannot be reached makes initializeDatabase throw.
InitializeDatabase(r, ok) ==
    /\ Alive(r)
    /\ r = 1 => configPc = "valid"
    /\ runs[r].pc = "idle"
    /\ runs' = [runs EXCEPT ![r] =
                  IF ok
                  THEN [@ EXCEPT !.pc = "files",
                                 !.after = \E o \in Replicas \ {r} :
                                               runs[o].pc \in {"validate", "done"}]
                  ELSE Rollback(@, "connect")]
    /\ IF r = 1
       THEN /\ pool' = Initialize(pool, pools).pool
            /\ pools' = Initialize(pool, pools).pools
            /\ sinceClose' = TRUE
       ELSE UNCHANGED <<pool, pools, sinceClose>>
    /\ UNCHANGED <<disk, migration_history, applied, edits>>
    /\ UNCHANGED <<consumerVars, brokerVars, msgVars, appVars, consumerState, sched,
                   exhaustedLogged, stopVars, envVars, providerVars, storeVars,
                   checkedOut, poolOps, dbCall, shutdowns>>

\* getAvailableMigrations(): a directory or file that cannot be read throws.
ReadFiles(r, ok) ==
    /\ Alive(r)
    /\ runs[r].pc = "files"
    /\ runs' = [runs EXCEPT ![r] =
                  IF ok
                  THEN [@ EXCEPT !.pc = "select", !.avail = GetAvailableMigrations(disk)]
                  ELSE Rollback(@, "read")]
    /\ UNCHANGED <<disk, migration_history, applied, edits>>
    /\ UNCHANGED <<consumerVars, brokerVars, msgVars, appVars, consumerState, sched,
                   exhaustedLogged, stopVars, envVars, providerVars, storeVars, poolVars>>

\* getExecutedMigrations() and the pending filter; with nothing pending
\* runMigrations returns.
ReadExecuted(r) ==
    /\ Alive(r)
    /\ runs[r].pc = "select"
    /\ LET executedNames == {GetExecutedMigrations[i].migration_name :
                                i \in DOMAIN GetExecutedMigrations}
           pendingMigrations == PendingMigrations(runs[r].avail, executedNames)
       IN  runs' = [runs EXCEPT ![r].pending = pendingMigrations,
                                ![r].pc = IF pendingMigrations = <<>>
                                          THEN "validate" ELSE "begin"]
    /\ UNCHANGED <<disk, migration_history, applied, edits>>
    /\ UNCHANGED <<consumerVars, brokerVars, msgVars, appVars, consumerState, sched,
                   exhaustedLogged, stopVars, envVars, providerVars, storeVars, poolVars>>

\* executeMigration: pool.connect() and BEGIN.
BeginMigration(r) ==
    /\ Alive(r)
    /\ runs[r].pc = "begin"
    /\ runs' = [runs EXCEPT ![r].tx = Begin, ![r].executed = @ + 1, ![r].pc = "body"]
    /\ UNCHANGED <<disk, migration_history, applied, edits>>
    /\ UNCHANGED <<consumerVars, brokerVars, msgVars, appVars, consumerState, sched,
                   exhaustedLogged, stopVars, envVars, providerVars, storeVars, poolVars>>

\* executeMigration: client.query(migration.content).  Inside a transaction
\* the body's effects stay with the transaction until it commits.
ExecuteBody(r) ==
    /\ Alive(r)
    /\ runs[r].pc = "body"
    /\ LET migration == Head(runs[r].pending)
       IN  IF migration.content = "bad"
           THEN /\ runs' = [runs EXCEPT ![r] = Rollback(@, "body")]
                /\ UNCHANGED applied
           ELSE IF runs[r].tx.open
                THEN /\ runs' = [runs EXCEPT ![r].tx.body = TRUE, ![r].pc = "insert"]
                     /\ UNCHANGED applied
                ELSE /\ runs' = [runs EXCEPT ![r].pc = "insert"]
                     /\ applied' = [applied EXCEPT ![migration.name] = @ + 1]
    /\ UNCHANGED <<disk, migration_history, edits>>
    /\ UNCHANGED <<consumerVars, brokerVars, msgVars, appVars, consumerState, sched,
                   exhaustedLogged, stopVars, envVars, providerVars, storeVars, poolVars>>

\* executeMigration: INSERT INTO migration_history.  The insert waits while
\* another transaction holds an uncommitted row of the same name.
InsertHistory(r) ==
    /\ Alive(r)
    /\ runs[r].pc = "insert"
    /\ LET migration == Head(runs[r].pending)
           row == [migration_name |-> migration.name, checksum |-> migration.checksum]
       IN  /\ \A o \in Replicas \ {r} :
                  ~(runs[o].tx.row /\ Head(runs[o].pending).name = migration.name)
           /\ IF NameTaken(migration_history, migration.name)
              THEN /\ runs' = [runs EXCEPT ![r] = Rollback(@, "insert")]
                   /\ UNCHANGED migration_history
              ELSE IF runs[r].tx.open
                   THEN /\ runs' = [runs EXCEPT ![r].tx.row = TRUE, ![r].pc = "commit"]
                        /\ UNCHANGED migration_history
                   ELSE /\ runs' = [runs EXCEPT ![r].pc = "commit"]
                        /\ migration_history' = Append(migration_history, row)
    /\ UNCHANGED <<disk, applied, edits>>
    /\ UNCHANGED <<consumerVars, brokerVars, msgVars, appVars, consumerState, sched,
                   exhaustedLogged, stopVars, envVars, providerVars, storeVars, poolVars>>

\* executeMigration: COMMIT makes the body and the row visible together; the
\* loop of runMigrations goes on with the next pending migration.
CommitMigration(r) ==
    /\ Alive(r)
    /\ runs[r].pc = "commit"
    /\ LET migration == Head(runs[r].pending)
           row == [migration_name |-> migration.name, checksum |-> migration.checksum]
       IN  /\ applied' = IF runs[r].tx.body
                         THEN [applied EXCEPT ![migration.name] = @ + 1]
                         ELSE applied
           /\ migration_history' = IF runs[r].tx.row
                                   THEN Append(migration_history, row)
                                   ELSE migration_history
    /\ runs' = [runs EXCEPT ![r].tx = NoTx,
                            ![r].pending = Tail(@),
                            ![r].pc = IF Len(runs[r].pending) = 1
                                      THEN "validate" ELSE "begin"]
    /\ UNCHANGED <<disk, edits>>
    /\ UNCHANGED <<consumerVars, brokerVars, msgVars, appVars, consumerState, sched,
                   exhaustedLogged, stopVars, envVars, providerVars, storeVars, poolVars>>

\* validateMigrations() and the rest of initializeDatabase.
Validate(r, readable) ==
    /\ Alive(r)
    /\ runs[r].pc = "validate"
    /\ LET v == ValidateMigrations(readable)
       IN  runs' = [runs EXCEPT ![r] =
                      IF v.threw
                      THEN Rollback(@, "validate")
                      ELSE [@ EXCEPT !.valid = v.valid,
                                     !.reports = v.reports,
                                     !.pc = AfterValidation(v.valid),
                                     !.failedAt = IF AfterValidation(v.valid) = "failed"
                                                  THEN "validate" ELSE @]]
    /\ UNCHANGED <<disk, migration_history, applied, edits>>
    /\ UNCHANGED <<consumerVars, brokerVars, msgVars, appVars, consumerState, sched,
                   exhaustedLogged, stopVars, envVars, providerVars, storeVars, poolVars>>

\* The catch block of startConsumer: initializeDatabase threw, process.exit(1).
StartupFails ==
    /\ ~exited
    /\ appPc = "boot"
    /\ runs[1].pc = "failed"
    /\ exited' = TRUE
    /\ UNCHANGED <<consumerVars, brokerVars, msgVars, appPc, consumerState, sched,
                   exhaustedLogged, stopVars, dbVars, envVars, providerVars, storeVars, poolVars>>

\* A deployment changes, adds or removes a migration file.
EditFile(n, c) ==
    /\ edits < MaxEdits
    /\ c # disk[n]
    /\ disk' = [disk EXCEPT ![n] = c]
    /\ edits' = edits + 1
    /\ UNCHANGED <<runs, migration_history, applied>>
    /\ UNCHANGED <<consumerVars, brokerVars, msgVars, appVars, consumerState, sched,
                   exhaustedLogged, stopVars, envVars, providerVars, storeVars, poolVars>>

(***************************************************************************)
(* The operations of the AuditLogService.                                  *)
(***************************************************************************)
\* writeAuditLog(entry): one INSERT ... RETURNING id, created_at.
WriteAuditLog(entry, outcome) ==
    /\ ~exited
    /\ DatabaseReady
    /\ Len(audit_logs) < MaxRows
    /\ LET call == [NoCall EXCEPT !.op = "write"]
       IN  IF outcome = "ok"
           THEN /\ audit_logs' = Append(audit_logs,
                                        [id |-> Len(audit_logs) + 1,
                                         serviceName |-> entry.serviceName,
                                         userId |-> entry.userId])
                /\ svc' = [call EXCEPT !.queries = 1]
           ELSE /\ svc' = OnQueryError(call, outcome, 1)
                /\ UNCHANGED audit_logs
    /\ UNCHANGED <<consumerVars, brokerVars, msgVars, appVars, consumerState, sched,
                   exhaustedLogged, stopVars, dbVars, envVars, providerVars, poolVars>>

\* getAuditLogs(filter): the count query, then the page query.
GetAuditLogs(filter, limit, offset, outcomes) ==
    /\ ~exited
    /\ DatabaseReady
    /\ LET call == [NoCall EXCEPT !.op = "get", !.filter = filter,
                                  !.limit = limit, !.offset = offset]
       IN  svc' = IF outcomes[1] # "ok"
                  THEN OnQueryError(call, outcomes[1], 1)
                  ELSE IF outcomes[2] # "ok"
                       THEN OnQueryError(call, outcomes[2], 2)
                       ELSE [call EXCEPT !.queries = 2,
                                         !.total = CountQuery(audit_logs, filter),
                                         !.logs = PageQuery(audit_logs, filter,
                                                            limit, offset)]
    /\ UNCHANGED audit_logs
    /\ UNCHANGED <<consumerVars, brokerVars, msgVars, appVars, consumerState, sched,
                   exhaustedLogged, stopVars, dbVars, envVars, providerVars, poolVars>>

(***************************************************************************)
(* Pooled operations, one step per await.                                  *)
(***************************************************************************)
PoolFrame ==
    UNCHANGED <<consumerVars, brokerVars, msgVars, appVars, consumerState, sched,
                exhaustedLogged, stopVars, dbVars, envVars, providerVars, storeVars,
                lifeVars>>

\* An operation is called and suspends at `await this.pool.connect()`.
CallOp(s, kind) ==
    /\ ~exited
    /\ DatabaseReady
    /\ poolOps[s].pc \in {"idle", "done"}
    /\ poolOps' = [poolOps EXCEPT ![s] = [NoOp EXCEPT !.kind = kind, !.pc = "connect"]]
    /\ UNCHANGED checkedOut
    /\ PoolFrame

\* pool.connect() resolves with a client or rejects; a rejection leaves the
\* operation before its try block (testConnection catches it).
PoolConnect(s, ok) ==
    /\ ~exited
    /\ poolOps[s].pc = "connect"
    /\ IF ok
       THEN /\ poolOps' = [poolOps EXCEPT ![s].pc = "query", ![s].step = 1,
                                          ![s].held = TRUE, ![s].acquired = @ + 1]
            /\ checkedOut' = checkedOut + 1
       ELSE /\ poolOps' = [poolOps EXCEPT
                               ![s].pc = "done",
                               ![s].threw = (poolOps[s].kind # "testConnection")]
            /\ UNCHANGED checkedOut
    /\ PoolFrame

\* The statement the operation awaits resolves or rejects.
ClientQuery(s, result) ==
    /\ ~exited
    /\ poolOps[s].pc = "query"
    /\ IF result = "ok"
       THEN poolOps' = [poolOps EXCEPT
                           ![s].pc = IF poolOps[s].step = Len(Statements(poolOps[s].kind))
                                     THEN "finally" ELSE "query",
                           ![s].step = IF poolOps[s].step = Len(Statements(poolOps[s].kind))
                                       THEN @ ELSE @ + 1]
       ELSE poolOps' = [poolOps EXCEPT
                           ![s].pc = OnStatementError(poolOps[s].kind),
                           ![s].threw = Rethrows(poolOps[s].kind, result)]
    /\ UNCHANGED checkedOut
    /\ PoolFrame

\* catch of executeMigration: `await client.query('ROLLBACK')`, then throw.
ClientRollback(s, ok) ==
    /\ ~exited
    /\ poolOps[s].pc = "rollback"
    /\ poolOps' = [poolOps EXCEPT ![s].pc = AfterRollback(ok),
                                  ![s].rollback = IF ok THEN "ok" ELSE "failed"]
    /\ UNCHANGED checkedOut
    /\ PoolFrame

\* finally: client.release().
ClientRelease(s) ==
    /\ ~exited
    /\ poolOps[s].pc = "finally"
    /\ poolOps' = [poolOps EXCEPT ![s].pc = "done", ![s].held = FALSE,
                                  ![s].released = @ + 1]
    /\ checkedOut' = checkedOut - 1
    /\ PoolFrame

(***************************************************************************)
(* The pool's life cycle and gracefulShutdown once per shutdown trigger:   *)
(* every signal handler and both error handlers call gracefulShutdown, and *)
(* each call is an invocation of its own, suspended at its awaits.         *)
(***************************************************************************)
LifeFrame ==
    UNCHANGED <<tasks, stopPc, pending, nConns, brokerUp, trailVars, appPc, stopVars,
                dbVars, envVars, providerVars, storeVars, checkedOut, poolOps>>

\* Some code of the process calls initialize() (testConnection does).
DbInitialize ==
    /\ ~exited
    /\ pool # 0 \/ Created(pools) < MaxPools
    /\ pool' = Initialize(pool, pools).pool
    /\ pools' = Initialize(pool, pools).pools
    /\ sinceClose' = TRUE
    /\ dbCall' = [NoDbCall EXCEPT !.op = "initialize", !.before = pool,
                                  !.since = sinceClose,
                                  !.returned = Initialize(pool, pools).pool,
                                  !.created = (Initialize(pool, pools).pools # pools)]
    /\ UNCHANGED <<connection, channel, reconnectAttempts, timers, conns, msgs,
                   consumerState, exited, sched, exhaustedLogged, shutdowns>>
    /\ LifeFrame

\* Some code of the process calls getDatabasePool().
GetDatabasePool ==
    /\ ~exited
    /\ dbCall' = [NoDbCall EXCEPT !.op = "getPool", !.before = pool,
                                  !.since = sinceClose,
                                  !.returned = GetPool(pool).returned,
                                  !.threw = GetPool(pool).threw]
    /\ UNCHANGED <<connection, channel, reconnectAttempts, timers, conns, msgs,
                   consumerState, exited, sched, exhaustedLogged, shutdowns,
                   pool, pools, sinceClose>>
    /\ LifeFrame

\* A shutdown trigger: gracefulShutdown clears consumerState.consuming and
\* suspends at `await consulDeregister()`.
ShutdownTrigger(r) ==
    /\ ~exited
    /\ shutdowns[r].pc = "idle"
    /\ \A o \in Signals : o < r => shutdowns[o].pc # "idle"
    /\ shutdowns' = [shutdowns EXCEPT ![r].pc = "deregister"]
    /\ consumerState' = [consumerState EXCEPT !.consuming = FALSE]
    /\ UNCHANGED <<connection, channel, reconnectAttempts, timers, conns, msgs,
                   exited, sched, exhaustedLogged, pool, pools, sinceClose, dbCall>>
    /\ LifeFrame

\* connection.close() of the stop() that invocation r has called.
RunClosesConnection(r) ==
    IF conns[connection].state = "open"
    THEN /\ Len(timers) + Len(tasks) + TimersAdded(conns[connection].listeners)
               <= MaxPending
         /\ conns' = ClosedConn(connection)
         /\ msgs' = Requeued(connection)
         /\ SetReconnect(HandleReconnectN(ReconnectState, conns[connection].listeners))
         /\ shutdowns' = [shutdowns EXCEPT ![r].pc = "conn", ![r].stopped = TRUE]
    ELSE \* closing a closed connection throws; stop() logs it and returns
         /\ shutdowns' = [shutdowns EXCEPT ![r].pc = "closeDb", ![r].stopped = TRUE]
         /\ UNCHANGED <<conns, msgs, reconnectAttempts, timers, sched, exhaustedLogged>>

\* `await rabbitmqConsumer.stop()`: stop() up to its first await.
RunStop(r) ==
    /\ ~exited
    /\ shutdowns[r].pc = "deregister"
    /\ IF channel # 0
       THEN IF conns[channel].chOpen
            THEN /\ conns' = ClosedChannel(channel)
                 /\ msgs' = Requeued(channel)
                 /\ shutdowns' = [shutdowns EXCEPT ![r].pc = "chan",
                                                   ![r].stopped = TRUE]
                 /\ UNCHANGED <<reconnectAttempts, timers, sched, exhaustedLogged>>
            ELSE \* closing a closed channel throws; stop() logs it and returns
                 /\ shutdowns' = [shutdowns EXCEPT ![r].pc = "closeDb",
                                                   ![r].stopped = TRUE]
                 /\ UNCHANGED <<conns, msgs, reconnectAttempts, timers, sched,
                                exhaustedLogged>>
       ELSE IF connection # 0
            THEN RunClosesConnection(r)
            ELSE /\ shutdowns' = [shutdowns EXCEPT ![r].pc = "closeDb",
                                                   ![r].stopped = TRUE]
                 /\ UNCHANGED <<conns, msgs, reconnectAttempts, timers, sched,
                                exhaustedLogged>>
    /\ UNCHANGED <<connection, channel, consumerState, exited, pool, pools,
                   sinceClose, dbCall>>
    /\ LifeFrame

\* stop() of invocation r: channel.close() has resolved.
RunChannelClosed(r) ==
    /\ ~exited
    /\ shutdowns[r].pc = "chan"
    /\ channel' = 0
    /\ IF connection # 0
       THEN RunClosesConnection(r)
       ELSE /\ shutdowns' = [shutdowns EXCEPT ![r].pc = "closeDb"]
            /\ UNCHANGED <<conns, msgs, reconnectAttempts, timers, sched,
                           exhaustedLogged>>
    /\ UNCHANGED <<connection, consumerState, exited, pool, pools, sinceClose, dbCall>>
    /\ LifeFrame

\* stop() of invocation r: connection.close() has resolved.
RunConnectionClosed(r) ==
    /\ ~exited
    /\ shutdowns[r].pc = "conn"
    /\ connection' = 0
    /\ shutdowns' = [shutdowns EXCEPT ![r].pc = "closeDb"]
    /\ UNCHANGED <<channel, reconnectAttempts, timers, conns, msgs, consumerState,
                   exited, sched, exhaustedLogged, pool, pools, sinceClose, dbCall>>
    /\ LifeFrame

\* `await closeDatabaseConnections()`: close() up to `await this.pool.end()`.
\* Without a pool close() does nothing; pool.end() on a pool that is ending
\* rejects ('Called end on pool more than once'), and the catch block of
\* gracefulShutdown calls process.exit(1).
RunClose(r) ==
    /\ ~exited
    /\ shutdowns[r].pc = "closeDb"
    /\ dbCall' = [NoDbCall EXCEPT !.op = "close", !.before = pool,
                                  !.since = sinceClose,
                                  !.ended = (pool # 0),
                                  !.threw = (pool # 0 /\ pools[pool] # "open")]
    /\ IF pool = 0
       THEN /\ shutdowns' = [shutdowns EXCEPT ![r].pc = "closed", ![r].closed = TRUE]
            /\ UNCHANGED <<pools, exited>>
       ELSE IF pools[pool] = "open"
            THEN /\ pools' = [pools EXCEPT ![pool] = "ending"]
                 /\ shutdowns' = [shutdowns EXCEPT ![r].pc = "ending",
                                                   ![r].closed = TRUE,
                                                   ![r].target = pool]
                 /\ UNCHANGED exited
            ELSE /\ shutdowns' = [shutdowns EXCEPT ![r].pc = "failed",
                                                   ![r].closed = TRUE]
                 /\ exited' = TRUE
                 /\ UNCHANGED pools
    /\ UNCHANGED <<connection, channel, reconnectAttempts, timers, conns, msgs,
                   consumerState, sched, exhaustedLogged, pool, sinceClose>>
    /\ LifeFrame

\* close() of invocation r: pool.end() has resolved, this.pool = null.
RunPoolEnded(r) ==
    /\ ~exited
    /\ shutdowns[r].pc = "ending"
    /\ pools' = [pools EXCEPT ![shutdowns[r].target] = "ended"]
    /\ pool' = PoolAfterClose(pool)
    /\ sinceClose' = FALSE
    /\ shutdowns' = [shutdowns EXCEPT ![r].pc = "closed"]
    /\ UNCHANGED <<connection, channel, reconnectAttempts, timers, conns, msgs,
                   consumerState, exited, sched, exhaustedLogged, dbCall>>
    /\ LifeFrame

\* gracefulShutdown after close() has returned, a later microtask:
\* consumerState.connected is cleared and process.exit(0) is called.
RunExits(r) ==
    /\ ~exited
    /\ shutdowns[r].pc = "closed"
    /\ shutdowns' = [shutdowns EXCEPT ![r].pc = "done"]
    /\ consumerState' = [consumerState EXCEPT !.connected = FALSE]
    /\ exited' = TRUE
    /\ UNCHANGED <<connection, channel, reconnectAttempts, timers, conns, msgs,
                   sched, exhaustedLogged, pool, pools, sinceClose, dbCall>>
    /\ LifeFrame

(***************************************************************************)
(* The specification.                                                      *)
(***************************************************************************)
\* Connection attempts, timers and the loss of a connection.
Connecting ==
    \/ \E probe \in ProbeResults : StartConsumer(probe)
    \/ \E i \in 1..MaxPending : ConnectResolves(i)
    \/ \E i \in 1..MaxPending : ChannelResolves(i)
    \/ \E i \in 1..MaxPending : SetupResolves(i)
    \/ \E i \in 1..MaxPending : SubscribeResolves(i)
    \/ \E j \in 1..MaxPending : TimerFires(j)
    \/ \E c \in Conns : ConnectionLost(c)

Outage ==
    \/ BrokerDown
    \/ BrokerBack

Shutdown ==
    \/ GracefulShutdown
    \/ StopBegins
    \/ StopChannelClosed
    \/ StopConnectionClosed
    \/ ShutdownExits

Delivery ==
    \/ \E m \in Msgs, k \in RoutingKeys, b \in Contents : Publish(m, k, b)
    \/ \E m \in Msgs, c \in Conns : Deliver(m, c)
    \/ \E p \in pending : Settle(p)
    \/ \E route \in PushRoutes, body \in Bodies : PushDeliver(route, body)

\* Every replica's initializeDatabase and the deployments that change files.
Migration ==
    \/ \E r \in Replicas, ok \in BOOLEAN : InitializeDatabase(r, ok)
    \/ \E r \in Replicas, ok \in BOOLEAN : ReadFiles(r, ok)
    \/ \E r \in Replicas : ReadExecuted(r)
    \/ \E r \in Replicas : BeginMigration(r)
    \/ \E r \in Replicas : ExecuteBody(r)
    \/ \E r \in Replicas : InsertHistory(r)
    \/ \E r \in Replicas : CommitMigration(r)
    \/ \E r \in Replicas, readable \in BOOLEAN : Validate(r, readable)
    \/ \E n \in MigrationNames, c \in FileContents \cup {Missing} : EditFile(n, c)
    \/ StartupFails

\* Calls of the persistence and query service.
Store ==
    \/ \E entry \in Entries, outcome \in QueryOutcomes : WriteAuditLog(entry, outcome)
    \/ \E filter \in Filters, limit \in 1..MaxLimit, offset \in 0..MaxRows,
          outcomes \in OutcomeSeqs :
            GetAuditLogs(filter, limit, offset, outcomes)

PooledOps ==
    \/ \E s \in Slots, kind \in OpKinds : CallOp(s, kind)
    \/ \E s \in Slots, ok \in BOOLEAN : PoolConnect(s, ok)
    \/ \E s \in Slots, result \in QueryResults : ClientQuery(s, result)
    \/ \E s \in Slots, ok \in BOOLEAN : ClientRollback(s, ok)
    \/ \E s \in Slots : ClientRelease(s)

\* Calls on DatabaseConnection and the invocations of gracefulShutdown.
Lifecycle ==
    \/ DbInitialize
    \/ GetDatabasePool
    \/ \E r \in Signals : ShutdownTrigger(r)
    \/ \E r \in Signals : RunStop(r)
    \/ \E r \in Signals : RunChannelClosed(r)
    \/ \E r \in Signals : RunConnectionClosed(r)
    \/ \E r \in Signals : RunClose(r)
    \/ \E r \in Signals : RunPoolEnded(r)
    \/ \E r \in Signals : RunExits(r)

Next ==
    \/ ValidateConfig \/ Migration \/ Connecting \/ Outage \/ Shutdown \/ Delivery
    \/ Store \/ PooledOps \/ Lifecycle

Spec == Init /\ [][Next]_vars

\* The connection life cycle alone: no message is published or posted.
NextReconnect == Connecting \/ Outage \/ Shutdown

SpecReconnect == InitMigrated /\ [][NextReconnect]_vars

\* Deliveries over a broker that stays reachable and a process that is not
\* shut down: connections are still lost and reopened.
NextDelivery == Connecting \/ Delivery

SpecDelivery == InitMigrated /\ [][NextDelivery]_vars

\* Startup: the replicas initialise the database, this process then starts
\* its transport and serves push requests.
NextStartup ==
    \/ ValidateConfig
    \/ Migration
    \/ \E probe \in ProbeResults : StartConsumer(probe)
    \/ \E route \in PushRoutes, body \in Bodies : PushDeliver(route, body)

SpecStartup == Init /\ [][NextStartup]_vars

\* Pull mode over a connection that stays up.  The event loop runs every
\* continuation that is ready, and the broker delivers every message that
\* stays ready to a consumer with a free prefetch slot (fair redelivery).
NextPull ==
    \/ \E probe \in ProbeResults : StartConsumer(probe)
    \/ \E i \in 1..MaxPending : ConnectResolves(i)
    \/ \E i \in 1..MaxPending : ChannelResolves(i)
    \/ \E i \in 1..MaxPending : SetupResolves(i)
    \/ \E i \in 1..MaxPending : SubscribeResolves(i)
    \/ \E m \in Msgs, k \in RoutingKeys, b \in Contents : Publish(m, k, b)
    \/ \E m \in Msgs, c \in Conns : Deliver(m, c)
    \/ \E p \in pending : Settle(p)

FairPull ==
    /\ WF_vars(\E i \in 1..MaxPending :
                  ConnectResolves(i) \/ ChannelResolves(i) \/ SetupResolves(i)
                     \/ SubscribeResolves(i))
    /\ \A m \in Msgs : WF_vars(\E c \in Conns : Deliver(m, c))
    /\ WF_vars(\E p \in pending : Settle(p))

SpecPull == InitMigrated /\ [][NextPull]_vars /\ FairPull

\* Startup and the connection life cycle under every setting of
\* MESSAGING_PROVIDER.
InitProvider ==
    /\ InitProcess
    /\ Migrated
    /\ \E p \in Providers :
          env = [validateConfig(DeployedEnv).env EXCEPT !.MESSAGING_PROVIDER = p]
    /\ configPc = "valid"

SpecProvider == InitProvider /\ [][NextReconnect]_vars

\* Start failure, connection loss and timer callbacks with room for the
\* connections of two attempts that run at the same time.
NextRace ==
    \/ \E probe \in ProbeResults : StartConsumer(probe)
    \/ \E i \in 1..MaxPending : ConnectWithin(i, MaxRaceConns)
    \/ \E i \in 1..MaxPending : ChannelResolves(i)
    \/ \E i \in 1..MaxPending : SetupResolves(i)
    \/ \E i \in 1..MaxPending : SubscribeResolves(i)
    \/ \E j \in 1..MaxPending : TimerFires(j)
    \/ \E c \in Conns : ConnectionLost(c)

SpecRace == InitMigrated /\ [][NextRace]_vars

\* validateConfig() on every environment of Envs.
SpecConfig == InitConfig /\ [][ValidateConfig]_vars

\* The persistence and query service alone, over an initialised database.
SpecStore == InitMigrated /\ [][Store]_vars

\* The pooled operations of one process, in every interleaving.
SpecPool == InitMigrated /\ [][PooledOps]_vars

\* Startup of the consumer, the pool's life cycle and shutdown triggers, in a
\* process that has started and in one that only loaded the module.
NextShutdown ==
    \/ \E probe \in ProbeResults : StartConsumer(probe)
    \/ \E i \in 1..MaxPending : ConnectResolves(i)
    \/ \E i \in 1..MaxPending : ChannelResolves(i)
    \/ \E i \in 1..MaxPending : SetupResolves(i)
    \/ \E i \in 1..MaxPending : SubscribeResolves(i)
    \/ Lifecycle

InitShutdown == InitMigrated \/ Init

SpecShutdown == InitShutdown /\ [][NextShutdown]_vars

(***************************************************************************)
(* Properties.                                                             *)
(***************************************************************************)

\* The event-processing function can complete on message m: its routing key
\* has an entry in TOPIC_HANDLERS and its body parses to an envelope.
Processable(m) ==
    /\ msgs[m].key \in Topics
    /\ JSONParse(msgs[m].content).ok
    /\ JSONParse(msgs[m].content).value # "null"

\* Deliveries, pull and push, whose event-processing function completed.
Successes ==
    Sum([m \in Msgs |-> IF Processable(m) THEN deliveries[m] ELSE 0], Msgs)
        + pushes["object"]

\* C1: in pull mode a message is acknowledged only after its handler's
\* processing has completed successfully: a message whose processing failed
\* is never acknowledged.
C1_AckOnlyAfterSuccess ==
    (last.mode = "pull" /\ last.invoked /\ "ack" \in Range(last.settle)) => last.ok

\* C2: in pull mode, when the event-processing function of a handler throws,
\* the message is negatively acknowledged with requeue and never acknowledged.
C2_FailureIsNacked ==
    (last.mode = "pull" /\ last.invoked /\ ~last.ok) => last.settle = <<"nack">>

\* C3: in pull mode a message whose body is not valid JSON is acknowledged
\* and discarded: it is never negatively acknowledged, never queued again.
C3_ParseFailureIsAcked ==
    (last.mode = "pull" /\ ~JSONParse(last.content).ok) =>
        /\ last.settle = <<"ack">>
        /\ msgs[last.msg].st = "acked"
        /\ ~msgs[last.msg].redelivered

\* C4: in pull mode a message whose routing key has no entry in the dispatch
\* table is acknowledged exactly once, no handler is invoked, no audit entry
\* is created and the message is never queued again.
C4_UnknownKeyIsAckedOnce ==
    (last.mode = "pull" /\ last.key \notin Topics) =>
        /\ last.settle = <<"ack">>
        /\ ~last.invoked
        /\ auditRecords[last.msg] = 0 /\ auditLogs[last.msg] = 0
        /\ ~msgs[last.msg].redelivered

\* C5: the number of persisted audit entries equals the number of deliveries,
\* push and pull, that a handler processed successfully: every success adds
\* one entry, every other delivery adds none.
C5_EntriesMatchSuccesses ==
    Sum(auditLogs, 0..MaxMsgs) = Successes

\* C6: delivery is at least once and nothing is deduplicated: a message whose
\* audit write succeeded and whose acknowledgment was lost is delivered and
\* processed again, and then has two audit rows, both kept.
C6_RedeliveryAddsSecondRow ==
    \A m \in Msgs :
        (Processable(m) /\ msgs[m].redelivered /\ deliveries[m] = 2) =>
            auditLogs[m] = 2

\* C7: within a run of consecutive failed connection attempts the k-th
\* reconnect that is scheduled has the delay reconnectDelay * 2^(k-1).
C7_BackoffDoubles ==
    \A k \in 1..Len(sched) : sched[k] = reconnectDelay * 2 ^ (k - 1)

\* Three reconnects have been scheduled in a row: 5000, 10000, 20000 ms.
C7_ThirdDelayScheduled ==
    Len(sched) >= 3 /\ sched[3] = 4 * reconnectDelay

\* A timer callback's connect() and subscribe() succeed in this step.
ReconnectSucceeds ==
    \E i \in DOMAIN tasks :
        /\ tasks[i].kind = "timer" /\ tasks[i].pc = "subscribe"
        /\ tasks' = RemoveAt(tasks, i)
        /\ conns'[tasks[i].ch].consumers = conns[tasks[i].ch].consumers + 1

\* C8: after a reconnect attempt has succeeded the attempt counter is 0, so
\* that the next disconnect is retried after reconnectDelay again.
C8_SuccessResetsCounter ==
    [][ReconnectSucceeds =>
          /\ reconnectAttempts' = 0
          /\ HandleReconnect([att |-> reconnectAttempts', tm |-> <<>>,
                              sch |-> <<>>, ex |-> FALSE]).tm = <<reconnectDelay>>]_vars

\* The first connection is gone and a reconnect has put a consumer on the
\* second one, with the counter back at 0.
C8_ReconnectedAfterLoss ==
    /\ nConns = 2
    /\ conns[1].state = "closed"
    /\ conns[2].consumers > 0
    /\ reconnectAttempts = 0
    /\ sched = <<>>

\* C9: after maxReconnectAttempts failed attempts in a row no further attempt
\* is scheduled, the exhaustion is reported and the consumer is terminated:
\* the process is not left alive without consuming.
C9_ExhaustionTerminates ==
    exhaustedLogged => (exited /\ timers = <<>>)

\* C10: once stop() has been called, no later event (the 'close' that stop()
\* itself causes included) schedules a reconnect, opens a connection or
\* resumes consuming.
C10_StoppedIsTerminal ==
    [][stopCalled =>
          /\ Len(timers') <= Len(timers)
          /\ nConns' = nConns
          /\ \A c \in Conns : conns'[c].consumers <= conns[c].consumers]_vars

\* C11: a reconnect timer that was pending when stop() was called is a no-op
\* when it fires: it starts no connection attempt, opens no connection,
\* creates no channel, binds nothing and schedules no further reconnect.
C11_PendingTimerIsNoOp ==
    [][timersAtStop' < timersAtStop =>
          /\ tasks' = tasks
          /\ conns' = conns /\ nConns' = nConns
          /\ Len(timers') <= Len(timers)]_vars

\* stop() issued connection.close() before channel.close().
ConnectionClosedFirst ==
    \E i, j \in DOMAIN stopOps :
        i < j /\ stopOps[i] = "connection.close" /\ stopOps[j] = "channel.close"

\* C12: stop() closes the channel before the connection, never throws (an
\* error raised while closing is swallowed), and performs no close operation
\* when the consumer never had a channel or a connection.
C12_StopClosesInOrder ==
    /\ stopPc # "threw"
    /\ ~ConnectionClosedFirst
    /\ (stopCalled /\ nConns = 0) => stopOps = <<>>
    /\ "caught" \in Range(stopOps) => stopPc \in {"closeDb", "done"}

\* stop() has closed the channel, then the connection, and returned.
C12_BothClosed ==
    /\ stopOps = <<"channel.close", "connection.close">>
    /\ stopPc = "closeDb"

\* stop() met an already closed channel and returned all the same.
C12_ErrorSwallowed ==
    /\ stopOps = <<"channel.close", "caught">>
    /\ stopPc = "closeDb"

\* connect() has completed on connection c: its channel is open and its
\* 'close' listener is registered (Bound); a connection with a consumer on
\* it (Consuming) is Bound as well.
BoundOrConsuming(c) ==
    /\ conns[c].state = "open"
    /\ conns[c].chOpen
    /\ conns[c].listeners > 0

\* C13: while the consumer is Bound or Consuming, every connection error,
\* connection close and channel error moves it to Reconnecting: a backoff
\* reconnect is scheduled.
C13_CloseSchedulesReconnect ==
    [][\A c \in Conns :
          (BoundOrConsuming(c) /\ conns'[c].state = "closed") =>
              Len(timers') > Len(timers)]_vars

\* C14: in push mode every delivery request receives exactly one response,
\* status 200 with body {status: "SUCCESS"}, on every outcome, also when the
\* event-processing function throws.
C14_PushAlwaysSucceeds ==
    last.mode = "push" =>
        /\ last.responses = <<[status |-> 200, body |-> "SUCCESS"]>>
        /\ last.status = 200

\* A push request whose event-processing function threw has been answered.
C14_FailedPushAnswered ==
    /\ last.mode = "push"
    /\ ~last.ok
    /\ Len(last.responses) = 1
    /\ last.responses[1].status = 200

(***************************************************************************)
(* Migrations.                                                             *)
(***************************************************************************)
\* Replica r's runMigrations() was called after another replica's call had
\* returned successfully, and has read the same migration files.
SecondCall(r) ==
    /\ runs[r].after
    /\ runs[r].pc \notin {"idle", "files"}
    /\ runs[r].failedAt \notin {"connect", "read"}
    /\ \E o \in Replicas \ {r} :
          /\ runs[o].pc \in {"validate", "done"}
          /\ runs[o].avail = runs[r].avail

\* C15: a call of runMigrations() made after a successful call, with the same
\* migration files on disk, executes no migration and leaves the contents of
\* migration_history as they were.
C15_SecondRunExecutesNothing ==
    [][\A r \in Replicas :
          /\ SecondCall(r)' =>
                /\ runs'[r].executed = 0
                /\ runs'[r].tx = NoTx
                /\ runs'[r].pc \in {"select", "validate", "done"}
          /\ SecondCall(r) =>
                /\ migration_history' = migration_history
                /\ applied' = applied]_vars

\* A second call has returned: every file it found had been executed by the
\* first call.
C15_SecondCallReturned ==
    \E r \in Replicas :
        /\ SecondCall(r)
        /\ runs[r].pc = "done"
        /\ Len(runs[r].avail) = NMigrations
        /\ Len(migration_history) = NMigrations
        /\ \E o \in Replicas : runs[o].executed = NMigrations

\* C16: a migration is atomic with its history record: the body's effects
\* and the row of migration_history are committed in one step or not at all,
\* and an executeMigration that fails in the body or in the insert commits
\* nothing and leaves no open transaction.
C16_BodyAndRecordTogether ==
    [][/\ \A n \in MigrationNames :
             /\ applied'[n] - applied[n] =
                   RowsOf(migration_history', n) - RowsOf(migration_history, n)
             /\ applied'[n] - applied[n] \in {0, 1}
       /\ \A r \in Replicas :
             (runs[r].pc \in {"body", "insert"} /\ runs'[r].pc = "failed") =>
                 /\ applied' = applied
                 /\ migration_history' = migration_history
                 /\ runs'[r].tx = NoTx]_vars

\* One migration has been committed with its row, and an executeMigration
\* whose body had run was rolled back at the insert of its history record.
C16_InsertRolledBack ==
    \E r \in Replicas :
        /\ runs[r].failedAt = "insert"
        /\ applied[Head(runs[r].pending).name] = 1
        /\ RowsOf(migration_history, Head(runs[r].pending).name) = 1

\* C17: in every reachable state, also with the runMigrations() calls of two
\* replicas interleaved, each migration body has been applied at most once
\* and an applied migration has exactly one migration_history record (a
\* migration that is not applied has none).
C17_AppliedOnceWithOneRecord ==
    \A n \in MigrationNames :
        /\ applied[n] <= 1
        /\ RowsOf(migration_history, n) = applied[n]

\* Both replicas found the same migration pending and executed it: one of
\* them committed, the other was rolled back.
C17_BothReplicasExecuted ==
    \E n \in MigrationNames :
        /\ applied[n] = 1
        /\ \A r \in Replicas : runs[r].executed > 0
        /\ \E r \in Replicas :
              /\ runs[r].failedAt = "insert"
              /\ Head(runs[r].pending).name = n

\* C18: a failure of a migration is fatal to startup: the failed run executes
\* nothing more (no later pending migration), initializeDatabase fails, and
\* this process never starts a transport: no push request is served, the
\* broker consumer is never started, consumerState never says consuming.
C18_FailureIsFatal ==
    [][/\ runs'[1].pc = "failed" =>
             /\ appPc' = "boot"
             /\ tasks' = <<>> /\ nConns' = 0
             /\ \A b \in Bodies : pushes'[b] = 0
             /\ ~consumerState'.connected /\ ~consumerState'.consuming
       /\ \A r \in Replicas : runs[r].pc = "failed" => runs'[r] = runs[r]]_vars

\* The first of two pending migrations failed in its body; the second was
\* not executed and the process has exited.
C18_SecondMigrationSkipped ==
    /\ runs[1].failedAt = "body"
    /\ Len(runs[1].pending) = 2
    /\ runs[1].executed = 1
    /\ applied = [n \in MigrationNames |-> 0]
    /\ exited

\* Executed migrations whose file is missing or has another checksum than
\* the recorded one.
Drifted ==
    {i \in DOMAIN migration_history :
        LET x == migration_history[i]
        IN  \/ disk[x.migration_name] = Missing
            \/ CalculateChecksum(disk[x.migration_name]) # x.checksum}

\* C19: validateMigrations() does not throw and does not modify
\* migration_history, and when an executed migration's file is missing or
\* has a checksum other than the recorded one it reports a problem.
C19_ValidationOnlyReports ==
    [][\A r \in Replicas :
          (runs[r].pc = "validate" /\ runs'[r].pc # "validate") =>
              /\ runs'[r].failedAt # "validate"
              /\ migration_history' = migration_history
              /\ applied' = applied
              /\ Drifted # {} => runs'[r].reports # {}
              /\ (Drifted = {} /\ runs'[r].valid) => runs'[r].reports = {}]_vars

\* A validation has reported the missing file of an executed migration.
C19_MissingFileReported ==
    \E r \in Replicas, n \in MigrationNames :
        /\ runs[r].pc = "done"
        /\ <<"warn", n>> \in runs[r].reports
        /\ RowsOf(migration_history, n) = 1
        /\ disk[n] = Missing

\* C20: checksum drift is not fatal: when validateMigrations() returns false
\* during startup, initializeDatabase still completes (startConsumer may go
\* on to start the transport, the process does not exit), and no migration
\* is rolled back or executed again.
C20_DriftIsNotFatal ==
    [][(runs[1].pc = "validate" /\ runs'[1].pc # "validate" /\ ~runs'[1].valid) =>
          /\ DatabaseReady'
          /\ runs'[1].failedAt = ""
          /\ runs'[1].executed = runs[1].executed
          /\ applied' = applied
          /\ migration_history' = migration_history
          /\ exited' = exited]_vars

\* The validation of this process reported a checksum mismatch and the
\* process has started its transport.
C20_StartedDespiteDrift ==
    \E n \in MigrationNames :
        /\ <<"error", n>> \in runs[1].reports
        /\ ~runs[1].valid
        /\ applied[n] = 1
        /\ appPc # "boot"
        /\ consumerState.consuming

(***************************************************************************)
(* Persistence and query service.                                          *)
(***************************************************************************)
\* C21: when the query of writeAuditLog or a query of getAuditLogs fails, the
\* operation rejects with that same error and issues no further query for
\* that call.
C21_ErrorsPropagateWithoutRetry ==
    svc.failed # "" =>
        /\ svc.rejected = svc.failed
        /\ svc.queries = svc.failedAt
        /\ svc.total = 0 /\ svc.logs = <<>>

\* The count query of a getAuditLogs call succeeded, its page query failed:
\* the call was rejected with the error of the page query after two queries.
C21_PageQueryFailed ==
    /\ svc.op = "get"
    /\ svc.failedAt = 2
    /\ svc.rejected = "Query failed"
    /\ svc.queries = 2

\* The stored entries a filter selects: an entry is selected when it
\* agrees with the filter on the service name, if the filter names one, and
\* on the user, if the filter names one.
Selected(filter) ==
    {i \in DOMAIN audit_logs :
        /\ filter.serviceName \in {Absent, audit_logs[i].serviceName}
        /\ filter.userId \in {Absent, audit_logs[i].userId}}

\* C22: for every filter, limit and offset, a getAuditLogs call that succeeds
\* returns as total the number of stored entries matching the filter (all
\* present fields ANDed), whatever limit and offset are, and as logs only
\* the requested page: the matching entries that have at least offset and
\* fewer than offset + limit more recent matching entries, most recent first.
C22_TotalIsFullCount ==
    (svc.op = "get" /\ svc.failed = "") =>
        LET sel == Selected(svc.filter)
            rank(i) == Cardinality({j \in sel : j > i})
            page == {i \in sel : rank(i) >= svc.offset /\ rank(i) < svc.offset + svc.limit}
        IN  /\ svc.total = Cardinality(sel)
            /\ Len(svc.logs) = Cardinality(page)
            /\ \A k \in DOMAIN svc.logs :
                  /\ svc.logs[k].id \in page
                  /\ svc.logs[k] = audit_logs[svc.logs[k].id]
                  /\ rank(svc.logs[k].id) = svc.offset + k - 1

\* A page smaller than the full count: two entries match, the page holds the
\* older one only.
C22_SecondPage ==
    /\ svc.op = "get" /\ svc.failed = ""
    /\ svc.filter.serviceName = "user-service"
    /\ svc.total = 2
    /\ svc.limit = 1 /\ svc.offset = 1
    /\ Len(svc.logs) = 1
    /\ svc.logs[1].id = 1

(***************************************************************************)
(* Poison messages.                                                        *)
(***************************************************************************)
\* A message whose processing fails at every delivery and is requeued.
Poison(m) ==
    /\ msgs[m].st # "none"
    /\ ConsumeSync(msgs[m].key, msgs[m].content).next = "nack"

\* C23: pull mode is not blocked by a poison message: whatever else is in the
\* queue, a message whose processing can succeed and that is ready in the
\* queue of the RabbitMQ consumer is eventually processed and acknowledged,
\* unless the deliveries of the run were used up before its first delivery.
C23_PoisonDoesNotBlock ==
    \A m \in Msgs :
        (appPc = "rabbitmq" /\ Processable(m) /\ msgs[m].st = "ready")
            ~> (msgs[m].st = "acked"
                  \/ (NDeliveries >= MaxDeliveries /\ deliveries[m] = 0))

\* A poison message has been delivered and requeued twice, and the message
\* published after it has been processed and acknowledged.
C23_AckedBehindPoison ==
    /\ Poison(1) /\ deliveries[1] = 2 /\ msgs[1].st = "ready"
    /\ Processable(2) /\ msgs[2].st = "acked" /\ deliveries[2] = 1

(***************************************************************************)
(* Configuration validation.                                               *)
(***************************************************************************)
\* The variables that have a validation rule.
Ruled == Range(RuleKeys)

\* A variable that is present in the environment with a non-empty value.
NonEmpty(x) == x.set /\ x.value # <<>>

\* C24: validateConfig() throws when the SERVICE_NAME environment variable is
\* missing: once the configuration of an environment without SERVICE_NAME
\* has been validated, the validation has failed.
C24_MissingServiceNameThrows ==
    (configPc # "unchecked" /\ ~env.SERVICE_NAME.set) => configPc = "failed"

\* C25 as stated, reading "set" as present in the environment: validateConfig()
\* gives every absent variable of the rules its default, changes no variable
\* that is present, and throws exactly when a present variable fails its
\* validator.
C25_DefaultsForAbsentOnly ==
    [][(configPc = "unchecked" /\ configPc' # "unchecked") =>
          /\ \A k \in Ruled :
                IF env[k].set
                THEN env'[k] = env[k]
                ELSE env'[k] = Value(validationRules[k].default)
          /\ \A k \in DOMAIN env \ Ruled : env'[k] = env[k]
          /\ (configPc' = "failed") <=>
                (\E k \in Ruled : env[k].set /\ ~Validator(k, env[k].value))]_vars

\* C25: validateConfig() gives every variable of the rules that is absent or
\* empty its default, changes no variable that has a non-empty value or has
\* no rule, and throws exactly when a variable with a non-empty value fails
\* the validator of its rule.
C25_DefaultsForAbsentOrEmpty ==
    [][(configPc = "unchecked" /\ configPc' # "unchecked") =>
          /\ \A k \in Ruled :
                IF NonEmpty(env[k])
                THEN env'[k] = env[k]
                ELSE env'[k] = Value(validationRules[k].default)
          /\ \A k \in DOMAIN env \ Ruled : env'[k] = env[k]
          /\ (configPc' = "failed") <=>
                (\E k \in Ruled : NonEmpty(env[k]) /\ ~Validator(k, env[k].value))]_vars

\* validateConfig() returned: LOG_LEVEL and POSTGRES_PORT carry their defaults
\* and the variables that were set carry their own values.
C25_DefaultsAssigned ==
    /\ configPc = "valid"
    /\ env.LOG_LEVEL = Value(<<"i", "n", "f", "o">>)
    /\ env.POSTGRES_PORT = Value(<<"5", "4", "3", "2">>)
    /\ env.PORT = Value(<<"6", "5", "5", "3", "5">>)
    /\ env.DB_SSL = Value(<<"T", "R", "U", "E">>)

(***************************************************************************)
(* Exposed consumer state.                                                 *)
(***************************************************************************)
\* C26: the processed-message counter counts successes only and each once:
\* messagesProcessed never exceeds the number of messages whose handler
\* succeeded, and equals it whenever no handler is in flight.
C26_CounterCountsSuccessesOnce ==
    /\ consumerState.messagesProcessed <= Successes
    /\ pending = {} => consumerState.messagesProcessed = Successes

\* C27: the exposed consumer state is truthful in pull mode: while the
\* consumer has not been stopped and consumerState.consuming is true, the
\* RabbitMQ consumer has an open connection with an active subscription, or
\* a connection attempt is running, or a reconnect timer is pending.
C27_ConsumingIsTruthful ==
    (appPc = "rabbitmq" /\ consumerState.consuming /\ ~stopCalled) =>
        \/ \E c \in Conns : ChannelUsable(c) /\ conns[c].consumers > 0
        \/ tasks # <<>>
        \/ timers # <<>>

(***************************************************************************)
(* Selection of the delivery variant.                                      *)
(***************************************************************************)
\* startConsumer passes the point where the provider is resolved.
ProviderChosen == appPc = "boot" /\ appPc' # "boot"

\* The RabbitMQ consumer's start() is called in this step.
ConsumerStarted == Len(tasks') = Len(tasks) + 1 /\ tasks'[Len(tasks')].kind = "start"

\* No connection to the broker has been opened or is being opened.
NoBrokerConnection == nConns = 0 /\ connection = 0 /\ tasks = <<>> /\ timers = <<>>

\* C28 as stated, reading "set" as present in the environment: the resolved
\* provider is MESSAGING_PROVIDER when the variable is present, otherwise
\* 'dapr' or 'rabbitmq' after the probe; the consumer is started exactly when
\* the provider is not 'dapr'; in push mode no broker connection is opened.
C28_ProviderWhenPresent ==
    [][/\ ProviderChosen =>
            /\ messagingProvider' =
                  IF env.MESSAGING_PROVIDER.set THEN env.MESSAGING_PROVIDER.value
                  ELSE IF daprAvailable' = "ok" THEN "dapr" ELSE "rabbitmq"
            /\ ConsumerStarted <=> messagingProvider' # "dapr"
       /\ messagingProvider' = "dapr" => NoBrokerConnection']_vars

\* C28: exactly one delivery variant is selected at startup: the resolved
\* provider is MESSAGING_PROVIDER when the variable has a non-empty value,
\* otherwise 'dapr' when the sidecar probe succeeds and 'rabbitmq' when it
\* fails; the RabbitMQ consumer is started exactly when the resolved
\* provider is not 'dapr'; in push mode no broker connection is ever opened.
C28_OneVariantSelected ==
    [][/\ ProviderChosen =>
            /\ messagingProvider' =
                  IF env.MESSAGING_PROVIDER.set /\ env.MESSAGING_PROVIDER.value # ""
                  THEN env.MESSAGING_PROVIDER.value
                  ELSE IF daprAvailable' = "ok" THEN "dapr" ELSE "rabbitmq"
            /\ ConsumerStarted <=> messagingProvider' # "dapr"
       /\ messagingProvider' = "dapr" => NoBrokerConnection']_vars

\* MESSAGING_PROVIDER names the broker while the sidecar answers the probe:
\* the consumer has connected to the broker and subscribed.
C28_BrokerChosenDespiteSidecar ==
    /\ env.MESSAGING_PROVIDER = Provider("rabbitmq")
    /\ daprAvailable = "ok"
    /\ messagingProvider = "rabbitmq"
    /\ \E c \in Conns : ChannelUsable(c) /\ conns[c].consumers > 0

(***************************************************************************)
(* Topic dispatch.                                                         *)
(***************************************************************************)
\* C29: handler lookup is by exact routing-key equality: the routing key of
\* a message whose body the consume callback has parsed resolved to a
\* handler if and only if it is one of the topic strings of the dispatch
\* table.
C29_LookupIsExactMatch ==
    (last.mode = "pull" /\ JSONParse(last.content).ok) =>
        (last.handler # "undefined" <=> last.key \in Topics)

(***************************************************************************)
(* Order of the migrations.                                                *)
(***************************************************************************)
\* The names of a sequence of migrations or of history rows.
NamesOf(migrations) == {migrations[i].name : i \in DOMAIN migrations}
Recorded == {migration_history[i].migration_name : i \in DOMAIN migration_history}

\* C30: pending migrations are executed one at a time, in the order of their
\* names, and only migrations that are not in migration_history: the pending
\* list of a run is the files whose names the history does not hold when the
\* run reads it; a run starts the first migration of its pending list, with
\* no transaction open, every other pending migration having a greater name
\* and every earlier file being recorded in migration_history; and the
\* application of a migration is committed only while its name is absent
\* from migration_history.
C30_PendingInOrderOneAtATime ==
    [][\A r \in Replicas :
          /\ (runs[r].pc = "select" /\ runs'[r].pc # "select" /\ Alive(r)) =>
                /\ NamesOf(runs'[r].pending) = NamesOf(runs[r].avail) \ Recorded
          /\ (runs[r].pc = "begin" /\ runs'[r].pc = "body") =>
                LET n == Head(runs[r].pending).name
                IN  /\ runs[r].tx = NoTx
                    /\ \A i \in 2..Len(runs[r].pending) : runs[r].pending[i].name > n
                    /\ \A m \in NamesOf(runs[r].avail) : m < n => m \in Recorded
          /\ \A n \in MigrationNames :
                applied'[n] # applied[n] =>
                    /\ applied'[n] = applied[n] + 1
                    /\ n \notin Recorded
                    /\ n \in Recorded']_vars

\* A run that found both migrations pending has committed the first and is
\* executing the second.
C30_SecondAfterFirstCommitted ==
    \E r \in Replicas :
        /\ runs[r].pc = "body"
        /\ runs[r].executed = NMigrations
        /\ Head(runs[r].pending).name = NMigrations
        /\ Recorded = MigrationNames \ {NMigrations}
        /\ \A n \in MigrationNames \ {NMigrations} : applied[n] = 1

(***************************************************************************)
(* Pooled clients.                                                         *)
(***************************************************************************)
\* C31: every client acquired by a migration-runner or connection-test
\* operation is released exactly once when the operation ends, on every exit
\* path: an operation that has ended holds no client and has called release
\* once if pool.connect() gave it a client and never otherwise; no operation
\* releases before it ends; the pool's count of checked-out clients is the
\* number of operations in progress that hold one, so it is zero when all
\* have ended.
C31_ClientReleasedOnce ==
    /\ \A s \in Slots :
          /\ poolOps[s].pc \in {"idle", "done"} =>
                ~poolOps[s].held /\ poolOps[s].released = poolOps[s].acquired
          /\ poolOps[s].pc \notin {"idle", "done"} => poolOps[s].released = 0
          /\ poolOps[s].acquired <= 1
    /\ checkedOut = Cardinality({s \in Slots : poolOps[s].held})

\* executeMigration failed at COMMIT, its ROLLBACK failed too, and it has
\* ended with its client released.
C31_ReleasedAfterFailedRollback ==
    \E s \in Slots :
        /\ poolOps[s].kind = "executeMigration"
        /\ poolOps[s].pc = "done" /\ poolOps[s].step = 4 /\ poolOps[s].threw
        /\ poolOps[s].rollback = "failed"
        /\ poolOps[s].released = 1
        /\ checkedOut = 0

(***************************************************************************)
(* Settlement.                                                             *)
(***************************************************************************)
\* C32: every message delivered to the pull consumer is settled exactly
\* once: when the consume callback has finished with a message, exactly one
\* of ack and nack has been issued for it and has taken effect.
C32_SettledExactlyOnce ==
    last.mode = "pull" => last.settle \in {<<"ack">>, <<"nack">>}

(***************************************************************************)
(* Reconnection: concurrency.                                              *)
(***************************************************************************)
\* The connections that are open with a channel and a consumer on the queue.
Subscribed == {c \in Conns : ChannelUsable(c) /\ conns[c].consumers > 0}

\* C33: at any time the consumer has at most one connection attempt
\* scheduled or in progress and at most one open connection with an active
\* subscription.
C33_OneAttemptOneSubscription ==
    /\ Len(timers) + Len(tasks) <= 1
    /\ Cardinality(Subscribed) <= 1

\* C34: no connection opened by a connection attempt is abandoned: every
\* open connection is the one the consumer holds in this.connection or the
\* one an attempt in progress has opened.
C34_NoAbandonedConnection ==
    \A c \in Conns :
        conns[c].state = "open" =>
            \/ connection = c
            \/ \E i \in DOMAIN tasks : tasks[i].ch = c

\* C35: in every reachable state 0 <= reconnectAttempts <=
\* maxReconnectAttempts, and the reconnect timers scheduled since the last
\* successful reconnection are as many as the counter says, so never more
\* than maxReconnectAttempts.
C35_AttemptsBounded ==
    /\ reconnectAttempts \in 0..maxReconnectAttempts
    /\ Len(sched) = reconnectAttempts
    /\ Len(sched) <= maxReconnectAttempts

\* handleReconnect has been called with the counter at its maximum: ten
\* timers were scheduled and the eleventh call scheduled nothing.
C35_CapReached ==
    /\ reconnectAttempts = maxReconnectAttempts
    /\ Len(sched) = maxReconnectAttempts
    /\ exhaustedLogged
    /\ timers = <<>>

\* C36: a consumer that is not consuming can still reach Consuming: while
\* stop() has not been called and fewer than maxReconnectAttempts attempts
\* have been counted, a RabbitMQ consumer whose start() has returned and that
\* has no subscribed connection has a reconnect timer pending or an attempt
\* in progress.
C36_ReconnectStaysPossible ==
    (/\ appPc = "rabbitmq" /\ ~stopCalled /\ ~exited
     /\ consumerState.consuming
     /\ Subscribed = {}
     /\ reconnectAttempts < maxReconnectAttempts)
        => (timers # <<>> \/ tasks # <<>>)


\* C37: the dispatch table mirrors the push routes: an event type delivered
\* on a push route has an own entry in TOPIC_HANDLERS, and an event type
\* dispatched through TOPIC_HANDLERS has a push route.
C37_TableMirrorsRoutes ==
    /\ last.mode = "push" => Lookup(last.key) = "table"
    /\ (last.mode = "pull" /\ last.handler = "table") => last.key \in PushRoutes


\* Invocations of gracefulShutdown whose stop() is suspended at an await.
Stopping == {r \in Signals : shutdowns[r].pc \in {"chan", "conn"}}

\* C38: graceful shutdown is ordered: the step that starts it leaves
\* consumerState.consuming false; the step in which close() is called is
\* taken by an invocation whose stop() has returned, with no stop() still in
\* progress; and consumerState.connected turns false only in an invocation
\* whose close() has returned, with the pool it ended closed.
C38_ShutdownOrdered ==
    [][\A r \in Signals :
          /\ (shutdowns[r].pc = "idle" /\ shutdowns'[r].pc # "idle")
                => ~consumerState'.consuming
          /\ (~shutdowns[r].closed /\ shutdowns'[r].closed)
                => (shutdowns[r].stopped /\ Stopping = {})
          /\ (consumerState.connected /\ ~consumerState'.connected
                 /\ shutdowns'[r] # shutdowns[r])
                => /\ shutdowns[r].closed
                   /\ shutdowns[r].target # 0 => pools[shutdowns[r].target] = "ended"]_vars

\* C39: the shutdown sequence runs at most once: at most one invocation of
\* gracefulShutdown has called stop(), and at most one has called close().
C39_ShutdownRunsOnce ==
    /\ Cardinality({r \in Signals : shutdowns[r].stopped}) <= 1
    /\ Cardinality({r \in Signals : shutdowns[r].closed}) <= 1

\* C40: at most one pool exists, and it is this.pool; initialize() returns
\* the pool there was, or creates one when there was none; getPool() returns
\* this.pool when initialize() has been called since a close() last finished
\* and throws when it has not; close() without a pool ends nothing and does
\* not throw.
C40_PoolLifecycle ==
    /\ \A q \in Pools : pools[q] \in {"open", "ending"} => q = pool
    /\ dbCall.op = "initialize" =>
          /\ dbCall.returned # 0
          /\ dbCall.before # 0 => (dbCall.returned = dbCall.before /\ ~dbCall.created)
          /\ dbCall.before = 0 => dbCall.created
    /\ dbCall.op = "getPool" =>
          /\ dbCall.threw <=> ~dbCall.since
          /\ ~dbCall.threw => (dbCall.returned = dbCall.before /\ dbCall.before # 0)
    /\ (dbCall.op = "close" /\ dbCall.before = 0) => (~dbCall.ended /\ ~dbCall.threw)

\* Every case of C40 in one run: a pool was created after an earlier one was
\* closed, and the last call was a getPool() that threw or a close() that
\* found no pool.
C40_ClosedAndCreatedAgain ==
    /\ Created(pools) = MaxPools
    /\ \/ dbCall.op = "getPool" /\ dbCall.threw
       \/ dbCall.op = "close" /\ dbCall.before = 0

=============================================================================
